---- MODULE Spec2Model ----
(***************************************************************************)
(* Model of the agentflow-ts core: the bounded-concurrency SubagentPool    *)
(* (src/subagents), and the turn loop runAgent (src/agents/runner.ts).     *)
(*                                                                         *)
(* JavaScript runs one callback at a time: every action below is one       *)
(* synchronous run of code between two suspension points (await).          *)
(***************************************************************************)
EXTENDS Integers, Sequences, FiniteSets, TLC

(***************************************************************************)
(* Bounds of the model.                                                    *)
(***************************************************************************)
MaxTasks == 4            \* spawn calls on one pool
MaxConcurrentOpt == 2    \* options.maxConcurrent is drawn from 0..MaxConcurrentOpt
MaxWaitTasks == 2        \* spawn calls in the specification with a clock
MaxFairTasks == 3        \* spawn calls in the specification with fairness
MaxTimeoutTicks == 3     \* waitFor timeouts are 0..MaxTimeoutTicks ticks
MaxTurnsOpt == 5         \* options.maxTurns of runAgent is drawn from 0..MaxTurnsOpt
MaxRuns == 3             \* calls of runAgent on one conversation
MaxRerunTurns == 1       \* options.maxTurns of the repeated runs is 1..MaxRerunTurns
MaxObjects == 3          \* context objects allocated by the caller of the context functions
MaxConversation == 3     \* messages of a conversation given to windowing and compaction
MaxSkills == 3           \* skills of the list given to matchSkills
MaxElapses == 2          \* clock advances between the steps of the repeated runs
MaxSubagents == 3        \* spawn calls in the specification with a parent conversation
MaxPrefixLen == 3        \* model identifiers include the first 0..MaxPrefixLen characters of a key

(***************************************************************************)
(* Program constants.                                                      *)
(***************************************************************************)
DefaultMaxConcurrent == 3
PollIntervalMs == 100
SubagentMaxTurns == 5
AutoInvokeScore == 80
ContextLimit == 8192
ModelCharsPerToken == 4
RoleOverhead == 4
ConversationOverhead == 3
DefaultKeepRecent == 4
TriggerScore == 100
NameScore == 80
KeywordScore == 15
KeywordCap == 60
MaxKeywordSkipLen == 2
DefaultMaxTokens == 8000
CharsPerToken == 4
BreakerStops == 3
BreakerWindowMs == 300000

\* The clock of the model advances by half a poll interval.
TickMs == PollIntervalMs \div 2

Undefined == "undefined"

\* Strings are sequences of tokens; "/" is the separator parseModelString
\* splits on.
DefaultModelString == <<"ollama", "/", "llama3.3:70b">>

\* The keys of config.providers (a provider named "custom" is configured but
\* createProvider has no case for it).
ConfiguredProviders == {<<"ollama">>, <<"custom">>}

\* The cases of the switch in createProvider.
KnownProviders ==
  {<<"ollama">>, <<"groq">>, <<"together">>, <<"openai">>, <<"anthropic">>}

\* The model argument of spawn: absent (the empty string is falsy too), well
\* formed, without separator, with an unconfigured provider, with a provider
\* createProvider does not know.
ModelArgs ==
  { <<>>,
    <<"ollama", "/", "m">>,
    <<"m">>,
    <<"nope", "/", "m">>,
    <<"custom", "/", "m">> }

\* The model arguments of the specification with a clock.
WaitModelArgs == { <<"ollama", "/", "m">>, <<"m">> }

Prompts == {"task"}
Responses == {"reply"}
ProviderFailures == {"Provider request failed"}

VARIABLES
  maxConcurrent,   \* SubagentPool.maxConcurrent
  tasks,           \* SubagentPool.tasks: the Map in insertion order; id = index
  running,         \* SubagentPool.running
  tpc,             \* per task: where its runTask call is suspended
  hist,            \* per task: every value assigned to task.status, in order
  tctx,            \* per task: the context of its runTask call
  lastStep,        \* the last pool operation and the tasks it started
  doneAt,          \* per task: Date.now() when it became terminal, else -1
  now,             \* Date.now(), in ms
  waiter,          \* the waitFor call, if any
  opts,            \* runAgent: initialPrompt, the context passed in, the options
  context,         \* runAgent: the local variable context
  turnCount,       \* runAgent: the local variable turnCount
  stopWindow,      \* runAgent: the local variable stopWindow
  apc,             \* runAgent: where the call is suspended, or how it ended
  exchange,        \* runAgent: the provider call in flight (kind, messages sent)
  calls,           \* runAgent: provider calls and policy calls made so far
  log,             \* runAgent: the lines written with console.log
  outcome,         \* runAgent: what its caller receives
  heap,            \* the context objects and message arrays allocated so far
  lastCall         \* the last call of a context function, with its result

poolVars == <<maxConcurrent, tasks, running, tpc, hist, tctx>>
waitVars == <<lastStep, doneAt, now, waiter>>
agentVars ==
  <<opts, context, turnCount, stopWindow, apc, exchange, calls, log, outcome>>
memVars == <<heap, lastCall>>
vars ==
  <<maxConcurrent, tasks, running, tpc, hist, tctx, lastStep, doneAt, now, waiter,
    opts, context, turnCount, stopWindow, apc, exchange, calls, log, outcome,
    heap, lastCall>>

----------------------------------------------------------------------------
(***************************************************************************)
(* parseModelString: split on "/", at least two parts required.            *)
(***************************************************************************)
RECURSIVE SplitSlash(_)
SplitSlash(s) ==
  IF \A i \in 1..Len(s) : s[i] # "/"
  THEN <<s>>
  ELSE LET k == CHOOSE i \in 1..Len(s) :
                  s[i] = "/" /\ \A j \in 1..(i-1) : s[j] # "/"
       IN <<SubSeq(s, 1, k-1)>> \o SplitSlash(SubSeq(s, k+1, Len(s)))

RECURSIVE JoinSlash(_)
JoinSlash(parts) ==
  IF Len(parts) = 0 THEN <<>>
  ELSE IF Len(parts) = 1 THEN parts[1]
  ELSE parts[1] \o <<"/">> \o JoinSlash(Tail(parts))

\* [ok, provider, model, error]
parseModelString(modelString) ==
  LET parts == SplitSlash(modelString)
  IN IF Len(parts) >= 2
     THEN [ok |-> TRUE, provider |-> parts[1], model |-> JoinSlash(Tail(parts)),
           error |-> Undefined]
     ELSE [ok |-> FALSE, provider |-> <<>>, model |-> <<>>,
           error |-> "Invalid model string"]

\* The synchronous part of the try block of runTask, up to the first await:
\* the error it throws, or Undefined when it reaches `await loadAllSkills()`.
StartError(modelString) ==
  CHOOSE e \in
    { IF ~parsed.ok THEN parsed.error
      ELSE IF parsed.provider \notin ConfiguredProviders
           THEN "Provider not configured"
      ELSE IF parsed.provider \notin KnownProviders
           THEN "Unknown provider"
      ELSE Undefined : parsed \in {parseModelString(modelString)} } : TRUE

----------------------------------------------------------------------------
(***************************************************************************)
(* The pool as a value p = [tasks, running, tpc, hist], so that the        *)
(* synchronous recursion runTask -> processQueue -> runTask is computed    *)
(* within one step; p.order lists the runTask calls of the step in the     *)
(* order they are made.                                                    *)
(***************************************************************************)
Pool ==
  [tasks |-> tasks, running |-> running, tpc |-> tpc, hist |-> hist,
   order |-> <<>>]

\* The value of a one-element set: Only({e(x) : x \in {d}}) is e(d) with d
\* evaluated once.
Only(S) == CHOOSE x \in S : TRUE

SetStatus(p, id, st) ==
  [p EXCEPT !.tasks[id].status = st, !.hist[id] = Append(@, st)]

\* The end of the try block of runTask (ok) or its catch block.
Recorded(p, id, ok, value) ==
  IF ok
  THEN SetStatus([p EXCEPT !.tasks[id].result = value], id, "completed")
  ELSE SetStatus([p EXCEPT !.tasks[id].error = value], id, "failed")

\* The new task of spawn, registered in the Map.
Registered(p, prompt, model) ==
  LET taskId == Len(p.tasks) + 1
      taskModel == IF model = <<>> THEN DefaultModelString ELSE model
      task == [id |-> taskId, prompt |-> prompt, model |-> taskModel,
               status |-> "pending", result |-> Undefined, error |-> Undefined]
  IN [p EXCEPT !.tasks = Append(@, task),
               !.tpc = Append(@, "idle"),
               !.hist = Append(@, <<"pending">>)]

RECURSIVE runTask(_, _), processQueue(_), QueueLoop(_, _), Settle(_, _, _, _)
RECURSIVE QueueLoopNewestFirst(_, _)

\* Settle without the processQueue call of the finally block.
SettleNoDrain(p, id, ok, value) ==
  [Recorded(p, id, ok, value) EXCEPT !.running = @ \ {id}, !.tpc[id] = "done"]

\* Settle that releases the slot of a completed task only.
SettleKeepsSlot(p, id, ok, value) ==
  Only({ processQueue(p2) :
         p2 \in {[Recorded(p, id, ok, value) EXCEPT
                    !.running = IF ok THEN @ \ {id} ELSE @,
                    !.tpc[id] = "done"]} })

\* Settle that calls processQueue after a completion only.
SettleDrainsOnSuccess(p, id, ok, value) ==
  Only({ IF ok THEN processQueue(p2) ELSE p2 :
         p2 \in {[Recorded(p, id, ok, value) EXCEPT
                    !.running = @ \ {id},
                    !.tpc[id] = "done"]} })

\* The end of runTask: the end of its try block or its catch block, then its
\* finally block.
Settle(p, id, ok, value) ==
  Only({ processQueue(p2) :
         p2 \in {[Recorded(p, id, ok, value) EXCEPT
                    !.running = @ \ {id},
                    !.tpc[id] = "done"]} })

\* runTask from the task p1 has marked as started, up to its first
\* suspension point.
TryStart(p1, id) ==
  Only({ IF err # Undefined
         THEN Settle(p1, id, FALSE, err)
         ELSE [p1 EXCEPT !.tpc[id] = "loadAllSkills"] :
         err \in {StartError(p1.tasks[id].model)} })

\* runTask that adds the task to the running set without marking it running.
runTaskNoStatus(p, id) ==
  IF id \notin 1..Len(p.tasks) THEN p
  ELSE Only({ TryStart(p1, id) :
              p1 \in {[p EXCEPT !.running = @ \cup {id},
                                 !.order = Append(@, id)]} })

\* runTask up to its first suspension point.
runTask(p, id) ==
  IF id \notin 1..Len(p.tasks) THEN p
  ELSE Only({ TryStart(p1, id) :
              p1 \in {[SetStatus(p, id, "running") EXCEPT
                         !.running = @ \cup {id},
                         !.order = Append(@, id)]} })

\* A processQueue loop that visits the entries of the Map from the newest.
QueueLoopNewestFirst(p, i) ==
  IF i > Len(p.tasks) THEN p
  ELSE IF p.tasks[Len(p.tasks) + 1 - i].status = "pending"
       THEN Only({ IF Cardinality(p1.running) >= maxConcurrent
                   THEN p1
                   ELSE QueueLoopNewestFirst(p1, i + 1) :
                   p1 \in {runTask(p, Len(p.tasks) + 1 - i)} })
       ELSE QueueLoopNewestFirst(p, i + 1)

\* The loop of processQueue without its break.
RECURSIVE QueueLoopNoBreak(_, _)
QueueLoopNoBreak(p, i) ==
  IF i > Len(p.tasks) THEN p
  ELSE IF p.tasks[i].status = "pending"
       THEN Only({ QueueLoopNoBreak(p1, i + 1) : p1 \in {runTask(p, i)} })
       ELSE QueueLoopNoBreak(p, i + 1)

\* The for loop of processQueue from the i-th entry of the Map on.
QueueLoop(p, i) ==
  IF i > Len(p.tasks) THEN p
  ELSE IF p.tasks[i].status = "pending"
       THEN Only({ IF Cardinality(p1.running) >= maxConcurrent
                   THEN p1
                   ELSE QueueLoop(p1, i + 1) :
                   p1 \in {runTask(p, i)} })
       ELSE QueueLoop(p, i + 1)

\* A processQueue that returns when one slot is left.
processQueueKeepsOneFree(p) ==
  IF Cardinality(p.running) >= maxConcurrent - 1 THEN p ELSE QueueLoop(p, 1)

processQueue(p) ==
  IF Cardinality(p.running) >= maxConcurrent THEN p ELSE QueueLoop(p, 1)

\* spawn that starts the task when the running set is full, too.
spawnOffByOne(p, prompt, model) ==
  Only({ IF Cardinality(p1.running) <= maxConcurrent
         THEN runTask(p1, Len(p1.tasks))
         ELSE p1 :
         p1 \in {Registered(p, prompt, model)} })

\* spawn(prompt, model): the pool after the call.
spawn(p, prompt, model) ==
  Only({ IF Cardinality(p1.running) < maxConcurrent
         THEN runTask(p1, Len(p1.tasks))
         ELSE p1 :
         p1 \in {Registered(p, prompt, model)} })

Terminal(st) == st \in {"completed", "failed"}

\* The tasks of p whose status was assigned since the pool was as it is now,
\* other than id.
StartedIn(p, id) ==
  {i \in 1..Len(tasks) : i # id /\ Len(p.hist[i]) > Len(hist[i])}

SetPool(op, id, p) ==
  /\ tasks' = p.tasks
  /\ running' = p.running
  /\ tpc' = p.tpc
  /\ hist' = p.hist
  /\ lastStep' = [op |-> op, id |-> id, started |-> StartedIn(p, id),
                   order |-> p.order]
  /\ doneAt' = [i \in 1..Len(p.tasks) |->
                  IF ~Terminal(p.tasks[i].status) THEN -1
                  ELSE IF i \in 1..Len(tasks) /\ Terminal(tasks[i].status)
                       THEN doneAt[i]
                       ELSE now]
  /\ UNCHANGED maxConcurrent

----------------------------------------------------------------------------
(***************************************************************************)
(* Texts.  A text is a sequence of words separated by single spaces; a     *)
(* word is a string, WordLen gives its length in characters and Lower its  *)
(* lower-case form.                                                        *)
(***************************************************************************)
Words ==
  { <<"hello", 5>>, <<"please", 6>>, <<"brainstorm", 10>>, <<"Brainstorm", 10>>,
    <<"ideas", 5>>, <<"ok", 2>>, <<"use", 3>>, <<"tdd", 3>>, <<"the", 3>>,
    <<"write", 5>>, <<"tests", 5>>, <<"first", 5>>, <<"explore", 7>>,
    <<"design", 6>>, <<"plan", 4>>, <<"before", 6>>, <<"earlier", 7>>,
    <<"answer", 6>>, <<"Think", 5>>, <<"about", 5>>, <<"{{input}}", 9>>,
    <<"Test", 4>>, <<"You are a helpful assistant.", 28>>,
    <<"You are executing the", 21>>, <<"skill. Follow the instructions precisely.", 41>>,
    <<"note:", 5>>, <<";", 0>>, <<"Topics discussed:", 17>>, <<"Key points:", 11>>,
    <<"Current focus:", 14>>, <<"Previous conversation context.", 30>>,
    <<"[Previous conversation summary]:", 32>>, <<"[Conversation Summary]:", 23>>,
    <<"[Conversation Summary]:\n", 24>>, <<"summary", 7>>, <<"unittests", 9>>,
    <<"workflow", 8>>, <<"and", 3>> }

WordLen(w) == (CHOOSE e \in Words : e[1] = w)[2]

Lower(w) ==
  CASE w = "Brainstorm" -> "brainstorm"
    [] w = "Think" -> "think"
    [] w = "Test" -> "test"
    [] w = "G" -> "g"
    [] w = "P" -> "p"
    [] w = "T" -> "t"
    [] w = "You are a helpful assistant." -> "you are a helpful assistant."
    [] w = "You are executing the" -> "you are executing the"
    [] OTHER -> w

LowerText(text) == [i \in 1..Len(text) |-> Lower(text[i])]

RECURSIVE SumLen(_)
SumLen(text) == IF text = <<>> THEN 0 ELSE WordLen(Head(text)) + SumLen(Tail(text))

\* String.length of a text.
TextLen(text) == IF text = <<>> THEN 0 ELSE SumLen(text) + Len(text) - 1

----------------------------------------------------------------------------
(***************************************************************************)
(* Conversation context (src/agents/context.ts).                           *)
(***************************************************************************)
\* A progress value is the fraction num / den, den > 0.
Fraction(num, den) == [num |-> num, den |-> den]

createAgentContext(skills) ==
  [messages |-> <<>>, taskProgress |-> Fraction(0, 1), lastMessage |-> Undefined,
   skills |-> skills]

Message(role, content) == [role |-> role, content |-> content]

addMessage(ctx, message) ==
  [ctx EXCEPT !.messages = Append(@, message), !.lastMessage = message.content]

\* An updateProgress that stores progress as given.
updateProgressNoClamp(ctx, num, den) ==
  [ctx EXCEPT !.taskProgress = Fraction(num, den)]

\* Math.min(100, Math.max(0, progress)) for progress = num / den.
updateProgress(ctx, num, den) ==
  [ctx EXCEPT !.taskProgress =
     IF num < 0 THEN Fraction(0, 1)
     ELSE IF num > 100 * den THEN Fraction(100, 1)
     ELSE Fraction(num, den)]

\* The walk of getConversationHistory over the reversed non-system messages:
\* the messages included, given the characters counted so far.
\* A walk that passes over a message that does not fit and goes on with the
\* older ones.
RECURSIVE IncludedSkipping(_, _, _)
IncludedSkipping(reversed, chars, maxTokens) ==
  IF reversed = <<>> THEN <<>>
  ELSE LET msgChars == TextLen(Head(reversed).content)
       IN IF chars + msgChars > CharsPerToken * maxTokens
          THEN IncludedSkipping(Tail(reversed), chars, maxTokens)
          ELSE IncludedSkipping(Tail(reversed), chars + msgChars, maxTokens)
                 \o <<Head(reversed)>>

\* The loop over the reversed non-system messages: msgTokens is
\* content.length * 0.25, compared here in characters.
RECURSIVE Included(_, _, _)
Included(reversed, chars, maxTokens) ==
  IF reversed = <<>> THEN <<>>
  ELSE LET msgChars == TextLen(Head(reversed).content)
       IN IF chars + msgChars > CharsPerToken * maxTokens
          THEN <<>>
          ELSE Included(Tail(reversed), chars + msgChars, maxTokens)
                 \o <<Head(reversed)>>

Reverse(seq) == [i \in 1..Len(seq) |-> seq[Len(seq) + 1 - i]]

IsSystem(m) == m.role = "system"
NotSystem(m) == m.role # "system"

\* A history in which the system message is kept only when it fits the budget.
getConversationHistoryBudgeted(ctx, maxTokens) ==
  LET systems == SelectSeq(ctx.messages, IsSystem)
      fits == systems # <<>> /\ TextLen(systems[1].content) <= CharsPerToken * maxTokens
      nonSystem == Reverse(SelectSeq(ctx.messages, NotSystem))
  IN (IF fits THEN <<systems[1]>> ELSE <<>>)
       \o Included(nonSystem, IF fits THEN TextLen(systems[1].content) ELSE 0, maxTokens)

getConversationHistory(ctx, maxTokens) ==
  LET systems == SelectSeq(ctx.messages, IsSystem)
      systemChars == IF systems = <<>> THEN 0 ELSE TextLen(systems[1].content)
      nonSystem == Reverse(SelectSeq(ctx.messages, NotSystem))
  IN (IF systems = <<>> THEN <<>> ELSE <<systems[1]>>)
       \o Included(nonSystem, systemChars, maxTokens)

----------------------------------------------------------------------------
(***************************************************************************)
(* Skill matching (src/skills/matcher.ts) and skill runs                   *)
(* (src/skills/runner.ts).  A trigger is the set of the alternatives of a  *)
(* pattern (a|b|c); matching is word by word.                              *)
(***************************************************************************)
StopWords ==
  { "the", "a", "an", "and", "or", "but", "in", "on", "at", "to", "for",
    "of", "with", "by", "from", "as", "is", "was", "are", "were", "been",
    "be", "have", "has", "had", "do", "does", "did", "will", "would",
    "could", "should", "may", "might", "must", "can", "this", "that",
    "these", "those", "i", "you", "he", "she", "it", "we", "they" }

NoTrigger == {}

IsKeyword(w) == WordLen(w) > MaxKeywordSkipLen /\ w \notin StopWords

extractKeywords(text) == SelectSeq(LowerText(text), IsKeyword)

Occurs(w, text) == \E i \in 1..Len(text) : text[i] = w

\* The pairs <<part, word>> of different words in which part is a substring
\* of word.
SubWords == { <<"tests", "unittests">> }

\* String.includes on the words of a text: part is a word of the text or a
\* substring of one.
Includes(text, part) ==
  \E i \in 1..Len(text) : text[i] = part \/ <<part, text[i]>> \in SubWords

\* new RegExp(trigger, 'i').test(input)
TriggerTest(trigger, input) ==
  \E alt \in trigger : Includes(LowerText(input), Lower(alt))

\* inputLower.includes(skill.name.toLowerCase())
NameFound(skill, input) == Includes(LowerText(input), Lower(skill.name))

\* matchedKeywords.length
MatchedKeywords(skill, input) ==
  LET inputKeywords == extractKeywords(input)
      InInput(k) == Occurs(k, inputKeywords)
  IN Len(SelectSeq(extractKeywords(skill.description), InInput))

Min(a, b) == IF a < b THEN a ELSE b

\* The rules of matchSkills with the name rule tried before the trigger.
SkillScoreNameFirst(skill, input) ==
  IF NameFound(skill, input)
  THEN NameScore
  ELSE IF skill.trigger # NoTrigger /\ TriggerTest(skill.trigger, input)
       THEN TriggerScore
       ELSE Min(KeywordCap, MatchedKeywords(skill, input) * KeywordScore)

\* The score of one skill; the reason text of a result is left out.
SkillScore(skill, input) ==
  IF skill.trigger # NoTrigger /\ TriggerTest(skill.trigger, input)
  THEN TriggerScore
  ELSE IF NameFound(skill, input)
       THEN NameScore
       ELSE Min(KeywordCap, MatchedKeywords(skill, input) * KeywordScore)

\* The results of the for loop of matchSkills, before the sort.
RECURSIVE Scored(_, _)
Scored(input, skills) ==
  IF skills = <<>> THEN <<>>
  ELSE LET score == SkillScore(Head(skills), input)
       IN (IF score > 0 THEN <<[skill |-> Head(skills), score |-> score]>> ELSE <<>>)
            \o Scored(input, Tail(skills))

\* An insertion that puts a result before the results of equal score.
RECURSIVE InsertBeforeTies(_, _)
InsertBeforeTies(sorted, r) ==
  IF sorted = <<>> THEN <<r>>
  ELSE IF Head(sorted).score > r.score
       THEN <<Head(sorted)>> \o InsertBeforeTies(Tail(sorted), r)
       ELSE <<r>> \o sorted

\* results.sort((a, b) => b.score - a.score): a stable sort.
RECURSIVE InsertByScore(_, _)
InsertByScore(sorted, r) ==
  IF sorted = <<>> THEN <<r>>
  ELSE IF Head(sorted).score >= r.score
       THEN <<Head(sorted)>> \o InsertByScore(Tail(sorted), r)
       ELSE <<r>> \o sorted

RECURSIVE SortByScore(_)
SortByScore(results) ==
  IF results = <<>> THEN <<>>
  ELSE InsertByScore(SortByScore(SubSeq(results, 1, Len(results) - 1)),
                     results[Len(results)])

matchSkills(input, skills) == SortByScore(Scored(input, skills))

\* The best skill as a list of one element, or the empty list for null.
findBestSkill(input, skills) ==
  LET matches == matchSkills(input, skills)
  IN IF matches # <<>> THEN <<matches[1].skill>> ELSE <<>>

\* interpolateTemplate(template, {input}): vars[name] || `{{name}}`.
RECURSIVE interpolateTemplate(_, _)
interpolateTemplate(template, input) ==
  IF template = <<>> THEN <<>>
  ELSE (IF Head(template) = "{{input}}" /\ input # <<>>
        THEN input
        ELSE <<Head(template)>>) \o interpolateTemplate(Tail(template), input)

\* The messages runSkill sends to the provider.
SkillMessages(skill, input) ==
  << Message("system", <<"You are executing the", skill.name,
                         "skill. Follow the instructions precisely.">>),
     Message("user", interpolateTemplate(skill.template, input)) >>

SkillList ==
  << [name |-> "brainstorm",
      description |-> <<"explore", "ideas", "before", "the", "design">>,
      trigger |-> {"design", "Brainstorm", "plan"},
      template |-> <<"Think", "about", "{{input}}">>],
     [name |-> "tdd",
      description |-> <<"write", "tests", "first">>,
      trigger |-> NoTrigger,
      template |-> <<"Test", "{{input}}">>] >>

----------------------------------------------------------------------------
(***************************************************************************)
(* Actions of the pool.                                                    *)
(***************************************************************************)
TaskIds == 1..Len(tasks)

\* The context of a task whose runTask call has not built one.
NoContext == createAgentContext(<<>>)

SubagentSystemPrompt ==
  "You are a focused subagent. Complete the assigned task efficiently and concisely."

\* A runTask that goes on from the conversation of the caller of the pool.
TaskContextInherited(skills) == context

\* createAgentContext(this.config, skills) in runTask.
TaskContext(skills) == createAgentContext(skills)

\* runAgent(task.prompt, context, {systemPrompt, maxTurns: 5, ...}) up to the
\* provider exchange of its first turn, made by runSkill or by provider.chat.
SubagentStarted(ctx, prompt) ==
  addMessage(addMessage(ctx, Message("system", SubagentSystemPrompt)),
             Message("user", prompt))

\* runAgent from the output of the exchange to its return: without
\* shouldContinue the loop ends after the first turn.
SubagentReturned(ctx, response) ==
  updateProgress(addMessage(ctx, Message("assistant", response)),
                 1 * 100, SubagentMaxTurns)

Spawn(limit, prompts, models) ==
  /\ Len(tasks) < limit
  /\ \E prompt \in prompts, model \in models :
       \E p \in {spawn(Pool, prompt, model)} : SetPool("spawn", Len(tasks) + 1, p)
  /\ tctx' = Append(tctx, NoContext)

\* `await loadAllSkills()` returns (it never rejects): the context is built
\* and runAgent runs up to the provider call of its first turn.
SkillsLoaded(id) ==
  /\ id \in TaskIds
  /\ tpc[id] = "loadAllSkills"
  /\ tpc' = [tpc EXCEPT ![id] = "runAgent"]
  /\ tctx' = [tctx EXCEPT ![id] = SubagentStarted(TaskContext(SkillList),
                                                 tasks[id].prompt)]
  /\ lastStep' = [op |-> "skillsLoaded", id |-> id, started |-> {},
                   order |-> <<>>]
  /\ UNCHANGED <<maxConcurrent, tasks, running, hist, doneAt>>

\* runAgent returns: result := finalContext.lastMessage, then finally.
TaskCompletes(id) ==
  /\ id \in TaskIds
  /\ tpc[id] = "runAgent"
  /\ \E response \in Responses :
       \E finalContext \in {SubagentReturned(tctx[id], response)} :
         /\ \E p \in {Settle(Pool, id, TRUE, finalContext.lastMessage)} :
              SetPool("complete", id, p)
         /\ tctx' = [tctx EXCEPT ![id] = finalContext]

\* runAgent rejects with a provider error: catch, then finally.
TaskFails(id) ==
  /\ id \in TaskIds
  /\ tpc[id] = "runAgent"
  /\ \E msg \in ProviderFailures :
       \E p \in {Settle(Pool, id, FALSE, msg)} : SetPool("fail", id, p)
  /\ UNCHANGED tctx

TaskStep(id) == SkillsLoaded(id) \/ TaskCompletes(id) \/ TaskFails(id)

----------------------------------------------------------------------------
(***************************************************************************)
(* waitFor(taskId, timeoutMs).  Only waitFor reads the clock, so the clock  *)
(* is advanced only while a waitFor call sleeps, and timers fire when they *)
(* are due: the clock does not pass the wake-up time of the sleeping call. *)
(***************************************************************************)
Timeouts == {k * TickMs : k \in 0..MaxTimeoutTicks}

\* One evaluation of the while loop of waitFor, from its condition to the
\* return, the throw or the next `await setTimeout`.
PollLoop(w) ==
  IF now - w.startTime < w.timeoutMs
  THEN IF w.taskId \notin TaskIds
       THEN [w EXCEPT !.state = "threw", !.error = "not found"]
       ELSE IF Terminal(tasks[w.taskId].status)
            THEN [w EXCEPT !.state = "returned", !.value = tasks[w.taskId]]
            ELSE [w EXCEPT !.state = "sleeping", !.wakeAt = now + PollIntervalMs]
  ELSE [w EXCEPT !.state = "threw", !.error = "timed out"]

\* The value of a waitFor call that has not returned.
NoTask ==
  [id |-> 0, prompt |-> Undefined, model |-> <<>>, status |-> Undefined,
   result |-> Undefined, error |-> Undefined]

NoWaiter ==
  [state |-> "none", taskId |-> 0, timeoutMs |-> 0, startTime |-> 0,
   wakeAt |-> 0, value |-> NoTask, error |-> Undefined]

WaitFor(limit) ==
  /\ waiter.state = "none"
  /\ \E taskId \in 1..limit, timeoutMs \in Timeouts :
       waiter' = PollLoop([NoWaiter EXCEPT !.taskId = taskId,
                                           !.timeoutMs = timeoutMs,
                                           !.startTime = now])
  /\ UNCHANGED <<maxConcurrent, tasks, running, tpc, hist, tctx, lastStep, doneAt, now, agentVars, memVars>>

\* A wake-up that cancels the task when the wait times out.
WaitWakesCancels ==
  /\ waiter.state = "sleeping"
  /\ now >= waiter.wakeAt
  /\ waiter' = PollLoop(waiter)
  /\ IF waiter'.error = "timed out" /\ waiter.taskId \in running
     THEN /\ running' = running \ {waiter.taskId}
          /\ tasks' = [tasks EXCEPT ![waiter.taskId].status = "failed"]
          /\ hist' = [hist EXCEPT ![waiter.taskId] = Append(@, "failed")]
          /\ tpc' = [tpc EXCEPT ![waiter.taskId] = "done"]
     ELSE UNCHANGED <<tasks, running, hist, tpc>>
  /\ UNCHANGED <<maxConcurrent, tctx, lastStep, doneAt, now, agentVars, memVars>>

WaitWakes ==
  /\ waiter.state = "sleeping"
  /\ now >= waiter.wakeAt
  /\ waiter' = PollLoop(waiter)
  /\ UNCHANGED <<maxConcurrent, tasks, running, tpc, hist, tctx, lastStep, doneAt, now, agentVars, memVars>>

Tick ==
  /\ waiter.state = "sleeping"
  /\ now < waiter.wakeAt
  /\ now' = now + TickMs
  /\ UNCHANGED <<maxConcurrent, tasks, running, tpc, hist, tctx, lastStep, doneAt, waiter, agentVars, memVars>>

----------------------------------------------------------------------------
(***************************************************************************)
(* The turn loop runAgent (src/agents/runner.ts).  A provider exchange is  *)
(* one suspension: the chunks of the stream are delivered together.        *)
(***************************************************************************)
NoPrompt == <<>>

AgentPrompts == { <<"hello">>, <<"please", "brainstorm", "ideas">> }
SystemPrompts == { NoPrompt, <<"You are a helpful assistant.">> }
AgentResponses == { <<"ok">>, <<"use", "tdd">>, <<>> }
StopReasons == { <<"done">>, <<"budget">> }
AgentSkillLists == { <<>>, SkillList }

\* The contexts runAgent is called with: new, or holding an earlier exchange.
EarlierContexts(skills) ==
  { createAgentContext(skills),
    addMessage(addMessage(createAgentContext(skills),
                          Message("user", <<"earlier">>)),
               Message("assistant", <<"answer">>)) }

NoOptions ==
  [initialPrompt |-> NoPrompt, context |-> createAgentContext(<<>>),
   systemPrompt |-> NoPrompt, maxTurns |-> 0, shouldContinue |-> FALSE]

NoExchange == [kind |-> "none", messages |-> <<>>]

\* What has been observed of the runs: the provider exchanges started and the
\* policy calls made by the current run, its decisions and the order of its
\* events, the runAgent calls made so far and the times of their stop
\* decisions.
NoCalls ==
  [provider |-> 0, policy |-> 0, decisions |-> <<>>, trace |-> <<>>,
   runs |-> 0, stops |-> <<>>]

Event(made, ev) == [made EXCEPT !.trace = Append(@, ev)]

AgentIdle(o) ==
  /\ opts = o
  /\ context = o.context
  /\ turnCount = 0
  /\ stopWindow = <<>>
  /\ apc = "idle"
  /\ exchange = NoExchange
  /\ calls = NoCalls
  /\ log = <<>>
  /\ outcome = [kind |-> "none", context |-> o.context, error |-> Undefined]

\* context.lastMessage || initialPrompt: undefined and '' are falsy.
RouterInput(ctx) ==
  IF ctx.lastMessage = Undefined \/ ctx.lastMessage = <<>>
  THEN opts.initialPrompt
  ELSE ctx.lastMessage

\* The test of the best match with > in place of >=.
AutoInvokedStrict(ctx) ==
  LET skillMatches == matchSkills(RouterInput(ctx), ctx.skills)
  IN skillMatches # <<>> /\ skillMatches[1].score > AutoInvokeScore

AutoInvoked(ctx) ==
  LET skillMatches == matchSkills(RouterInput(ctx), ctx.skills)
  IN skillMatches # <<>> /\ skillMatches[1].score >= AutoInvokeScore

\* The head of the while loop, from its condition to the provider call of the
\* turn, or to the return after the loop; the condition is count < maxTurns
\* (strict) or count <= maxTurns.
LoopFrom(ctx, count, made, strict) ==
  IF (IF strict THEN count < opts.maxTurns ELSE count <= opts.maxTurns)
  THEN /\ turnCount' = count + 1
       /\ context' = ctx
       /\ apc' = "provider"
       /\ calls' = Event([made EXCEPT !.provider = @ + 1], "call")
       /\ IF AutoInvoked(ctx)
          THEN LET bestSkill == matchSkills(RouterInput(ctx), ctx.skills)[1].skill
               IN /\ exchange' = [kind |-> "skill",
                                  messages |-> SkillMessages(bestSkill, RouterInput(ctx))]
                  /\ log' = Append(log, <<"Executing skill", <<bestSkill.name>>>>)
          ELSE /\ exchange' = [kind |-> "chat",
                               messages |-> getConversationHistory(ctx, DefaultMaxTokens)]
               /\ log' = log
       /\ UNCHANGED outcome
  ELSE /\ turnCount' = count
       /\ context' = ctx
       /\ apc' = "returned"
       /\ exchange' = NoExchange
       /\ outcome' = [kind |-> "returned", context |-> ctx, error |-> Undefined]
       /\ calls' = made
       /\ log' = log

\* The loop head with the condition turnCount <= maxTurns.
LoopHeadOffByOne(ctx, count, made) == LoopFrom(ctx, count, made, FALSE)

LoopHead(ctx, count, made) == LoopFrom(ctx, count, made, TRUE)

\* The break statements of the loop: runAgent returns context.
Return(ctx, logged) ==
  /\ context' = ctx
  /\ apc' = "returned"
  /\ exchange' = NoExchange
  /\ log' = logged
  /\ outcome' = [kind |-> "returned", context |-> ctx, error |-> Undefined]
  /\ UNCHANGED turnCount

\* runAgent(initialPrompt, ctx, options) up to its first await; stopWindow is
\* a new array in every call.
Start(ctx) ==
  LET c1 == IF opts.systemPrompt # NoPrompt
            THEN addMessage(ctx, Message("system", opts.systemPrompt))
            ELSE ctx
      c2 == addMessage(c1, Message("user", opts.initialPrompt))
  IN /\ stopWindow' = <<>>
     /\ opts' = [opts EXCEPT !.context = ctx]
     /\ LoopHead(c2, 0, [NoCalls EXCEPT !.runs = calls.runs + 1,
                                        !.stops = calls.stops])

RunAgent ==
  /\ apc = "idle"
  /\ Start(context)

\* The caller runs runAgent again on the context the last run returned.
RunAgentAgain ==
  /\ apc = "returned"
  /\ calls.runs < MaxRuns
  /\ Start(outcome.context)

\* A reply after which the loop goes on when there is no continuation policy.
ProviderRepliesNoBreak ==
  /\ apc = "provider"
  /\ \E response \in AgentResponses :
       LET c1 == addMessage(context, Message("assistant", response))
           c2 == updateProgress(c1, turnCount * 100, opts.maxTurns)
       IN IF opts.shouldContinue
          THEN /\ context' = c2
               /\ apc' = "policy"
               /\ exchange' = NoExchange
               /\ calls' = Event(Event([calls EXCEPT !.policy = @ + 1], "reply"), "ask")
               /\ UNCHANGED <<turnCount, log, outcome>>
          ELSE LoopHead(c2, turnCount, Event(calls, "reply"))
  /\ UNCHANGED <<opts, stopWindow>>

\* The provider call of the turn returns its text: the assistant message is
\* appended, the progress updated, and the continuation policy asked, if any.
\* A reply after which the policy is asked before the assistant message is
\* appended.
ReplyAsksFirst(responses) ==
  /\ apc = "provider"
  /\ \E response \in responses :
       LET c1 == addMessage(context, Message("assistant", response))
           c2 == updateProgress(c1, turnCount * 100, opts.maxTurns)
       IN IF opts.shouldContinue
          THEN /\ context' = context
               /\ apc' = "policy"
               /\ exchange' = NoExchange
               /\ calls' = Event(Event([calls EXCEPT !.policy = @ + 1], "ask"), "reply")
               /\ UNCHANGED <<turnCount, log, outcome>>
          ELSE Return(c2, log) /\ calls' = Event(calls, "reply")
  /\ UNCHANGED <<opts, stopWindow>>

Reply(responses) ==
  /\ apc = "provider"
  /\ \E response \in responses :
       LET c1 == addMessage(context, Message("assistant", response))
           c2 == updateProgress(c1, turnCount * 100, opts.maxTurns)
       IN IF opts.shouldContinue
          THEN /\ context' = c2
               /\ apc' = "policy"
               /\ exchange' = NoExchange
               /\ calls' = Event(Event([calls EXCEPT !.policy = @ + 1], "reply"), "ask")
               /\ UNCHANGED <<turnCount, log, outcome>>
          ELSE Return(c2, log) /\ calls' = Event(calls, "reply")
  /\ UNCHANGED <<opts, stopWindow>>

ProviderReplies == Reply(AgentResponses)

\* A provider failure after which the exchange of the turn is made again.
ProviderThrowsRetries ==
  /\ apc = "provider"
  /\ \E msg \in ProviderFailures :
       calls' = Event([calls EXCEPT !.provider = @ + 1], msg)
  /\ UNCHANGED <<opts, context, turnCount, stopWindow, log, apc, exchange, outcome>>

\* The provider call throws: runAgent rejects with the error.
ProviderThrows ==
  /\ apc = "provider"
  /\ \E msg \in ProviderFailures :
       /\ apc' = "rejected"
       /\ outcome' = [kind |-> "rejected", context |-> opts.context, error |-> msg]
       /\ calls' = Event(calls, msg)
  /\ exchange' = NoExchange
  /\ UNCHANGED <<opts, context, turnCount, stopWindow, log>>

\* stopWindow after `push(now)` and the removal of the stops older than five
\* minutes.
RECURSIVE Pruned(_, _)
Pruned(window, fiveMinAgo) ==
  IF window # <<>> /\ window[1] < fiveMinAgo
  THEN Pruned(Tail(window), fiveMinAgo)
  ELSE window

Decided(continue, reason) ==
  [calls EXCEPT !.decisions = Append(@, [continue |-> continue, reason |-> reason]),
                !.trace = Append(@, "answer"),
                !.stops = IF continue THEN @ ELSE Append(@, now)]

\* shouldContinue answers continue: true.
PolicyContinues ==
  /\ apc = "policy"
  /\ \E reason \in StopReasons : LoopHead(context, turnCount, Decided(TRUE, reason))
  /\ UNCHANGED <<opts, stopWindow>>

\* A stop decision that is logged without leaving the loop.
PolicyStopsNoBreak ==
  /\ apc = "policy"
  /\ \E reason \in StopReasons :
       /\ stopWindow' = Pruned(Append(stopWindow, now), now - BreakerWindowMs)
       /\ LoopHead(context, turnCount, Decided(FALSE, reason))
  /\ UNCHANGED opts

\* shouldContinue answers continue: false with a reason.
PolicyStops ==
  /\ apc = "policy"
  /\ \E reason \in StopReasons :
       LET window == Pruned(Append(stopWindow, now), now - BreakerWindowMs)
       IN /\ stopWindow' = window
          /\ calls' = Decided(FALSE, reason)
          /\ IF Len(window) >= BreakerStops
             THEN Return(context, Append(log, <<"Circuit breaker",
                                               <<"too many stops in 5 minutes">>>>))
             ELSE Return(context, Append(log, <<"Stopping", reason>>))
  /\ UNCHANGED opts

AgentInit ==
  \E skills \in AgentSkillLists :
    \E o \in [initialPrompt : AgentPrompts, context : EarlierContexts(skills),
              systemPrompt : SystemPrompts, maxTurns : 0..MaxTurnsOpt,
              shouldContinue : BOOLEAN] :
      AgentIdle(o)

\* Time passes while the run is suspended or between two runs.
ElapseMs == 2 * 60 * 1000

Elapse ==
  /\ now < MaxElapses * ElapseMs
  /\ now' = now + ElapseMs
  /\ UNCHANGED <<poolVars, lastStep, doneAt, waiter, agentVars, memVars>>

AgentNext ==
  \/ RunAgent /\ UNCHANGED <<poolVars, waitVars, memVars>>
  \/ ProviderReplies /\ UNCHANGED <<poolVars, waitVars, memVars>>
  \/ ProviderThrows /\ UNCHANGED <<poolVars, waitVars, memVars>>
  \/ PolicyContinues /\ UNCHANGED <<poolVars, waitVars, memVars>>
  \/ PolicyStops /\ UNCHANGED <<poolVars, waitVars, memVars>>

----------------------------------------------------------------------------
(***************************************************************************)
(* The context functions on objects.  A context object holds a reference   *)
(* to its messages array; heap.objs and heap.arrs list the objects and the *)
(* arrays in allocation order, and a reference is an index.                *)
(***************************************************************************)
NoHeap == [objs |-> <<>>, arrs |-> <<>>]

\* The summary field of a result that has none.
NoSummary == <<Undefined>>

NoCompactOptions ==
  [keepRecent |-> DefaultKeepRecent, targetTokens |-> 0, focus |-> <<>>,
   provider |-> FALSE]

NoCall ==
  [op |-> "none", ctx |-> 0, message |-> Message("user", <<>>), progress |-> 0,
   result |-> 0, budget |-> 0, messages |-> <<>>, options |-> NoCompactOptions,
   pending |-> FALSE, originalTokens |-> 0, compactedTokens |-> 0,
   savedTokens |-> 0, summary |-> NoSummary, summarizer |-> "none",
   input |-> <<>>, skills |-> <<>>, matches |-> <<>>, best |-> <<>>]

MemIdle ==
  /\ heap = NoHeap
  /\ lastCall = NoCall

\* The context held by the object at reference r.
Contents(h, r) == [h.objs[r] EXCEPT !.messages = h.arrs[@]]

\* The object literal of value ctx with a new messages array.
NewObject(h, ctx) ==
  [objs |-> Append(h.objs, [ctx EXCEPT !.messages = Len(h.arrs) + 1]),
   arrs |-> Append(h.arrs, ctx.messages)]

createAgentContextAt(h, skills) == NewObject(h, createAgentContext(skills))

\* An addMessage that pushes the message onto the array of its argument.
addMessageAtPush(h, r, message) ==
  [objs |-> Append(h.objs, [h.objs[r] EXCEPT !.lastMessage = message.content]),
   arrs |-> [h.arrs EXCEPT ![h.objs[r].messages] = Append(@, message)]]

\* { ...context, messages: [...context.messages, message], lastMessage }
addMessageAt(h, r, message) == NewObject(h, addMessage(Contents(h, r), message))

\* { ...context, taskProgress }: the copy shares the messages array.
updateProgressAt(h, r, num, den) ==
  [objs |-> Append(h.objs, [updateProgress(Contents(h, r), num, den)
                              EXCEPT !.messages = h.objs[r].messages]),
   arrs |-> h.arrs]

CallerMessages ==
  { Message("user", <<"hello">>), Message("system", <<"You are a helpful assistant.">>),
    Message("assistant", <<>>) }

ProgressArgs == { -10, 50, 150 }

Refs == 1..Len(heap.objs)

CreateContext ==
  /\ Len(heap.objs) < MaxObjects
  /\ \E skills \in AgentSkillLists :
       /\ heap' = createAgentContextAt(heap, skills)
       /\ lastCall' = [NoCall EXCEPT !.op = "createAgentContext",
                                     !.result = Len(heap.objs) + 1]

AddMessage ==
  /\ Len(heap.objs) < MaxObjects
  /\ \E r \in Refs : \E message \in CallerMessages :
       /\ heap' = addMessageAt(heap, r, message)
       /\ lastCall' = [NoCall EXCEPT !.op = "addMessage", !.ctx = r,
                                     !.message = message,
                                     !.result = Len(heap.objs) + 1]

UpdateProgress ==
  /\ Len(heap.objs) < MaxObjects
  /\ \E r \in Refs : \E progress \in ProgressArgs :
       /\ heap' = updateProgressAt(heap, r, progress, 1)
       /\ lastCall' = [NoCall EXCEPT !.op = "updateProgress", !.ctx = r,
                                     !.progress = progress,
                                     !.result = Len(heap.objs) + 1]

\* maxTokens arguments: nothing fits, one short message fits, two short
\* messages fit, the default.
HistoryBudgets == { 0, 2, 3, DefaultMaxTokens }

\* getConversationHistory(ctx, maxTokens) on a context made so far.
History ==
  \E r \in Refs : \E maxTokens \in HistoryBudgets :
    /\ lastCall' = [NoCall EXCEPT !.op = "getConversationHistory", !.ctx = r,
                                  !.budget = maxTokens,
                                  !.messages = getConversationHistory(
                                                 Contents(heap, r), maxTokens)]
    /\ UNCHANGED heap

\* The caller passes the context at r to runAgent.
RunAgentOn ==
  /\ apc \in {"idle", "returned", "rejected"}
  /\ lastCall.op = "runAgent" => lastCall.result # 0 \/ apc = "rejected"
  /\ Len(heap.objs) < MaxObjects
  /\ calls.runs < MaxRuns
  /\ \E r \in Refs :
       /\ Start(Contents(heap, r))
       /\ lastCall' = [NoCall EXCEPT !.op = "runAgent", !.ctx = r]
  /\ UNCHANGED heap

\* The caller receives the context runAgent returns.
ResultStored ==
  /\ apc = "returned"
  /\ lastCall.op = "runAgent"
  /\ lastCall.result = 0
  /\ heap' = NewObject(heap, outcome.context)
  /\ lastCall' = [lastCall EXCEPT !.result = Len(heap.objs) + 1]
  /\ UNCHANGED agentVars

----------------------------------------------------------------------------
(***************************************************************************)
(* Token estimation (src/context/costs.ts) and compaction                  *)
(* (src/context/compaction.ts).  The model name is 'default' or a name     *)
(* with the default limits; savedPercentage is left out.                    *)
(***************************************************************************)
CeilDiv(a, b) == (a + b - 1) \div b

\* Math.ceil(baseTokens * 0.1) equals ceil(baseTokens / 10) for the texts of
\* the model (baseTokens < 30).
estimateTokens(text) ==
  IF text = <<>>
  THEN 0
  ELSE LET baseTokens == CeilDiv(TextLen(text), ModelCharsPerToken)
       IN baseTokens + CeilDiv(baseTokens, 10)

estimateMessageTokens(message) == estimateTokens(message.content) + RoleOverhead

RECURSIVE SumTokens(_)
SumTokens(messages) ==
  IF messages = <<>> THEN 0
  ELSE estimateMessageTokens(Head(messages)) + SumTokens(Tail(messages))

estimateConversationTokens(messages) == SumTokens(messages) + ConversationOverhead

\* messages.slice(-n); slice(-0) is the whole array.
LastN(seq, n) ==
  IF n = 0 \/ n >= Len(seq) THEN seq ELSE SubSeq(seq, Len(seq) - n + 1, Len(seq))

\* messages.slice(0, -n); slice(0, -0) is empty.
AllButLastN(seq, n) ==
  IF n = 0 \/ n >= Len(seq) THEN <<>> ELSE SubSeq(seq, 1, Len(seq) - n)

\* [...new Set(items)]
RECURSIVE Dedupe(_)
Dedupe(items) ==
  IF items = <<>> THEN <<>>
  ELSE LET rest == Dedupe(SubSeq(items, 1, Len(items) - 1))
           last == items[Len(items)]
       IN IF \E i \in 1..Len(rest) : rest[i] = last THEN rest ELSE Append(rest, last)

\* items.join('; '): ";" follows its word without a space.
RECURSIVE JoinSemi(_)
JoinSemi(items) ==
  IF items = <<>> THEN <<>>
  ELSE IF Len(items) = 1 THEN items[1]
  ELSE items[1] \o <<";">> \o JoinSemi(Tail(items))

\* The first sentence of a user message longer than 10 characters; the user
\* texts of the model hold no '.', '!' or '?' and are under 100 characters.
RECURSIVE UserQuestions(_)
UserQuestions(messages) ==
  IF messages = <<>> THEN <<>>
  ELSE (IF Head(messages).role = "user" /\ TextLen(Head(messages).content) > 10
        THEN <<Head(messages).content>> ELSE <<>>)
       \o UserQuestions(Tail(messages))

\* The lines of an assistant message that start a list item or hold ':'; the
\* assistant texts of the model are one line under 80 characters, and "note:"
\* is their only word with ':'.
RECURSIVE AssistantPoints(_)
AssistantPoints(messages) ==
  IF messages = <<>> THEN <<>>
  ELSE (IF /\ Head(messages).role = "assistant"
           /\ \E i \in 1..Len(Head(messages).content) :
                Head(messages).content[i] = "note:"
        THEN <<Head(messages).content>> ELSE <<>>)
       \o AssistantPoints(Tail(messages))

createLocalSummary(messages, focus) ==
  LET questions == SubSeq(Dedupe(UserQuestions(messages)), 1,
                          Min(5, Len(Dedupe(UserQuestions(messages)))))
      points == SubSeq(Dedupe(AssistantPoints(messages)), 1,
                       Min(5, Len(Dedupe(AssistantPoints(messages)))))
      parts == (IF questions # <<>>
                THEN <<"Topics discussed:">> \o JoinSemi(questions) ELSE <<>>)
               \o (IF points # <<>>
                   THEN <<"Key points:">> \o JoinSemi(points) ELSE <<>>)
               \o (IF focus # <<>> THEN <<"Current focus:">> \o focus ELSE <<>>)
  IN IF parts = <<>> THEN <<"Previous conversation context.">> ELSE parts

CompactionResult(messages, originalTokens, compacted, summary) ==
  [messages |-> compacted,
   originalTokens |-> originalTokens,
   compactedTokens |-> estimateConversationTokens(compacted),
   savedTokens |-> originalTokens - estimateConversationTokens(compacted),
   summary |-> summary]

\* The first system message, if any, as a list.
SystemMessage(messages) ==
  IF SelectSeq(messages, IsSystem) = <<>>
  THEN <<>>
  ELSE <<SelectSeq(messages, IsSystem)[1]>>

simpleCompact(messages, options) ==
  LET originalTokens == estimateConversationTokens(messages)
      target == IF options.targetTokens # 0
                THEN options.targetTokens
                ELSE ContextLimit \div 2
      nonSystemMessages == SelectSeq(messages, NotSystem)
      recentMessages == LastN(nonSystemMessages, options.keepRecent)
      oldMessages == AllButLastN(nonSystemMessages, options.keepRecent)
      summaryContent == IF oldMessages # <<>>
                        THEN createLocalSummary(oldMessages, options.focus)
                        ELSE <<>>
  IN IF originalTokens <= target
     THEN [messages |-> messages, originalTokens |-> originalTokens,
           compactedTokens |-> originalTokens, savedTokens |-> 0,
           summary |-> NoSummary]
     ELSE CompactionResult(messages, originalTokens,
            SystemMessage(messages)
              \o (IF summaryContent # <<>>
                  THEN <<Message("system",
                         <<"[Previous conversation summary]:">> \o summaryContent)>>
                  ELSE <<>>)
              \o recentMessages,
            summaryContent)

\* llmCompact asks the provider for a summary: it has a provider and a model
\* and some message is older than the recent ones.
Summarizes(messages, options) ==
  /\ options.provider
  /\ AllButLastN(SelectSeq(messages, NotSystem), options.keepRecent) # <<>>

\* llmCompact after the summary is known.
llmCompacted(messages, options, summary) ==
  CompactionResult(messages, estimateConversationTokens(messages),
    SystemMessage(messages)
      \o <<Message("system", IF summary = <<>>
                             THEN <<"[Conversation Summary]:\n">>
                             ELSE <<"[Conversation Summary]:">> \o summary)>>
      \o LastN(SelectSeq(messages, NotSystem), options.keepRecent),
    summary)

WindowMessages ==
  { Message("user", <<"hello">>), Message("user", <<"please", "brainstorm", "ideas">>),
    Message("assistant", <<"note:", "use", "tdd">>),
    Message("system", <<"You are a helpful assistant.">>) }

Conversations ==
  UNION { [1..n -> WindowMessages] : n \in 0..MaxConversation }

RECURSIVE AddAll(_, _)
AddAll(ctx, messages) ==
  IF messages = <<>> THEN ctx
  ELSE AddAll(addMessage(ctx, Head(messages)), Tail(messages))

CompactOptions ==
  [keepRecent : {0, 1, DefaultKeepRecent}, targetTokens : {0, 20},
   focus : {<<>>, <<"tests">>}, provider : BOOLEAN]

Summaries == { <<"summary">>, <<>> }

Compacted(op, r, options, res, summarizer) ==
  [NoCall EXCEPT !.op = op, !.ctx = r, !.options = options,
                 !.messages = res.messages,
                 !.originalTokens = res.originalTokens,
                 !.compactedTokens = res.compactedTokens,
                 !.savedTokens = res.savedTokens,
                 !.summary = res.summary,
                 !.summarizer = summarizer]

SimpleCompact ==
  /\ ~lastCall.pending
  /\ \E r \in Refs : \E options \in CompactOptions :
       lastCall' = Compacted("simpleCompact", r, options,
                             simpleCompact(Contents(heap, r).messages, options),
                             "none")
  /\ UNCHANGED heap

\* llmCompact up to its provider call, or to its return through simpleCompact.
LlmCompact ==
  /\ ~lastCall.pending
  /\ \E r \in Refs : \E options \in CompactOptions :
       LET messages == Contents(heap, r).messages
       IN IF Summarizes(messages, options)
          THEN lastCall' = [NoCall EXCEPT !.op = "llmCompact", !.ctx = r,
                                          !.options = options, !.pending = TRUE]
          ELSE lastCall' = Compacted("llmCompact", r, options,
                                     simpleCompact(messages, options), "none")
  /\ UNCHANGED heap

\* The provider returns the summary.
SummaryReturns ==
  /\ lastCall.pending
  /\ \E summary \in Summaries :
       lastCall' = Compacted("llmCompact", lastCall.ctx, lastCall.options,
                     llmCompacted(Contents(heap, lastCall.ctx).messages,
                                  lastCall.options, summary),
                     "returned")
  /\ UNCHANGED heap

\* A llmCompact without the catch: the provider's error ends the call.
SummaryThrowsRejects ==
  /\ lastCall.pending
  /\ lastCall' = [NoCall EXCEPT !.op = "llmCompact", !.ctx = lastCall.ctx,
                                !.options = lastCall.options,
                                !.summarizer = "threw"]
  /\ UNCHANGED heap

\* The provider throws, before or after some chunks: the local summary of the
\* old messages replaces what was received.
SummaryThrows ==
  /\ lastCall.pending
  /\ LET messages == Contents(heap, lastCall.ctx).messages
         old == AllButLastN(SelectSeq(messages, NotSystem), lastCall.options.keepRecent)
     IN lastCall' = Compacted("llmCompact", lastCall.ctx, lastCall.options,
                      llmCompacted(messages, lastCall.options,
                                   createLocalSummary(old, lastCall.options.focus)),
                      "threw")
  /\ UNCHANGED heap

\* The caller goes on with the compacted messages in place of the
\* conversation.
Adopt ==
  /\ lastCall.op \in {"simpleCompact", "llmCompact"}
  /\ ~lastCall.pending
  /\ lastCall.messages # Contents(heap, lastCall.ctx).messages
  /\ heap' = NewObject(NoHeap, [Contents(heap, lastCall.ctx)
                                  EXCEPT !.messages = lastCall.messages])
  /\ lastCall' = NoCall

----------------------------------------------------------------------------
(***************************************************************************)
(* Calls of matchSkills and findBestSkill on an input and a skill list.    *)
(***************************************************************************)
SkillCatalog ==
  { SkillList[1], SkillList[2],
    [name |-> "tests", description |-> <<"write", "tests", "first">>,
     trigger |-> NoTrigger, template |-> <<"{{input}}">>],
    [name |-> "review", description |-> <<"write", "ideas">>,
     trigger |-> NoTrigger, template |-> <<"{{input}}">>],
    [name |-> "ideas", description |-> <<"write", "tests", "and", "tests">>,
     trigger |-> {"design"}, template |-> <<"{{input}}">>],
    [name |-> "workflow",
     description |-> <<"write", "tests", "first", "explore", "ideas">>,
     trigger |-> NoTrigger, template |-> <<"{{input}}">>] }

\* The lists of up to MaxSkills different skills, in every order.
SkillLists ==
  { list \in UNION { [1..n -> SkillCatalog] : n \in 0..MaxSkills } :
      \A i, k \in 1..Len(list) : i # k => list[i] # list[k] }

MatchInputs ==
  { <<"write", "tdd", "plan">>, <<"please", "brainstorm", "ideas">>,
    <<"write", "tests", "first">>, <<"hello">>, <<"write", "unittests">>,
    <<"explore", "ideas", "write", "tests", "first">> }

MatchSkills ==
  /\ lastCall' = [lastCall EXCEPT !.op = "matchSkills",
                                  !.matches = matchSkills(lastCall.input, lastCall.skills)]
  /\ UNCHANGED heap

FindBestSkill ==
  /\ lastCall' = [lastCall EXCEPT !.op = "findBestSkill",
                                  !.best = findBestSkill(lastCall.input, lastCall.skills)]
  /\ UNCHANGED heap

----------------------------------------------------------------------------
(***************************************************************************)
(* getContextLimit (src/context/costs.ts).  A model identifier is the      *)
(* sequence of its characters; MODEL_CONTEXT_LIMITS lists the entries of   *)
(* the table in the order of Object.entries.                               *)
(***************************************************************************)
MODEL_CONTEXT_LIMITS ==
  << <<<<"g", "p", "t", "-", "4">>, 8192>>,
     <<<<"g", "p", "t", "-", "4", "-", "3", "2", "k">>, 32768>>,
     <<<<"g", "p", "t", "-", "4", "-", "t", "u", "r", "b", "o">>, 128000>>,
     <<<<"g", "p", "t", "-", "4", "o">>, 128000>>,
     <<<<"g", "p", "t", "-", "3", ".", "5", "-", "t", "u", "r", "b", "o">>, 16385>>,
     <<<<"c", "l", "a", "u", "d", "e", "-", "3", "-", "o", "p", "u", "s">>, 200000>>,
     <<<<"c", "l", "a", "u", "d", "e", "-", "3", "-", "s", "o", "n", "n", "e", "t">>, 200000>>,
     <<<<"c", "l", "a", "u", "d", "e", "-", "3", "-", "h", "a", "i", "k", "u">>, 200000>>,
     <<<<"c", "l", "a", "u", "d", "e", "-", "3", ".", "5", "-", "s", "o", "n", "n", "e", "t">>, 200000>>,
     <<<<"l", "l", "a", "m", "a", "3", ".", "3", ":", "7", "0", "b">>, 131072>>,
     <<<<"l", "l", "a", "m", "a", "3", ".", "3">>, 131072>>,
     <<<<"l", "l", "a", "m", "a", "3", ".", "2">>, 128000>>,
     <<<<"l", "l", "a", "m", "a", "3", ".", "1">>, 128000>>,
     <<<<"l", "l", "a", "m", "a", "3">>, 8192>>,
     <<<<"l", "l", "a", "m", "a", "2">>, 4096>>,
     <<<<"c", "o", "d", "e", "l", "l", "a", "m", "a">>, 16384>>,
     <<<<"m", "i", "s", "t", "r", "a", "l">>, 32768>>,
     <<<<"m", "i", "x", "t", "r", "a", "l">>, 32768>>,
     <<<<"m", "i", "s", "t", "r", "a", "l", "-", "l", "a", "r", "g", "e">>, 128000>>,
     <<<<"l", "l", "a", "m", "a", "-", "3", ".", "3", "-", "7", "0", "b", "-", "v", "e", "r", "s", "a", "t", "i", "l", "e">>, 131072>>,
     <<<<"l", "l", "a", "m", "a", "-", "3", ".", "1", "-", "7", "0", "b", "-", "v", "e", "r", "s", "a", "t", "i", "l", "e">>, 131072>>,
     <<<<"m", "i", "x", "t", "r", "a", "l", "-", "8", "x", "7", "b", "-", "3", "2", "7", "6", "8">>, 32768>>,
     <<<<"d", "e", "f", "a", "u", "l", "t">>, 8192>> >>

\* whole.includes(part)
IsSubstring(part, whole) ==
  \E i \in 0..(Len(whole) - Len(part)) : SubSeq(whole, i + 1, i + Len(part)) = part

getContextLimit(model) ==
  LET modelLower == LowerText(model)
      table == MODEL_CONTEXT_LIMITS
      direct == { k \in 1..Len(table) : table[k][1] = modelLower }
      partial == { k \in 1..Len(table) :
                     \/ IsSubstring(table[k][1], modelLower)
                     \/ IsSubstring(modelLower, table[k][1]) }
  IN IF direct # {}
     THEN table[CHOOSE k \in direct : TRUE][2]
     ELSE IF partial # {}
          THEN table[CHOOSE k \in partial : \A j \in partial : k <= j][2]
          ELSE ContextLimit

\* The model identifiers given to getContextLimit: the keys of the table,
\* the keys followed by "-preview" or ":8b", the first characters of the
\* keys, an identifier in upper case and one that matches nothing.
ModelNames ==
  { MODEL_CONTEXT_LIMITS[k][1] \o suffix :
      k \in 1..Len(MODEL_CONTEXT_LIMITS),
      suffix \in { <<>>, <<"-", "p", "r", "e", "v", "i", "e", "w">>, <<":", "8", "b">> } }
  \cup { SubSeq(MODEL_CONTEXT_LIMITS[k][1], 1, n) :
           k \in 1..Len(MODEL_CONTEXT_LIMITS), n \in 0..MaxPrefixLen }
  \cup { <<"G", "P", "T", "-", "4", "o">>, <<"q", "w", "e", "n">> }

GetContextLimit ==
  /\ lastCall.op = "none"
  /\ lastCall' = [lastCall EXCEPT !.op = "getContextLimit",
                                  !.result = getContextLimit(lastCall.input)]
  /\ UNCHANGED heap

----------------------------------------------------------------------------
PoolInit ==
  /\ maxConcurrent \in
       {IF o = 0 THEN DefaultMaxConcurrent ELSE o : o \in 0..MaxConcurrentOpt}
  /\ tasks = <<>>
  /\ running = {}
  /\ tpc = <<>>
  /\ hist = <<>>
  /\ tctx = <<>>
  /\ lastStep = [op |-> "new", id |-> 0, started |-> {}, order |-> <<>>]
  /\ doneAt = <<>>

Init ==
  /\ PoolInit
  /\ now = 0
  /\ waiter = NoWaiter
  /\ AgentIdle(NoOptions)
  /\ MemIdle

PoolNext ==
  \/ Spawn(MaxTasks, Prompts, ModelArgs) /\ UNCHANGED <<now, waiter, agentVars, memVars>>
  \/ \E id \in 1..MaxTasks : SkillsLoaded(id) /\ UNCHANGED <<now, waiter, agentVars, memVars>>
  \/ \E id \in 1..MaxTasks : TaskCompletes(id) /\ UNCHANGED <<now, waiter, agentVars, memVars>>
  \/ \E id \in 1..MaxTasks : TaskFails(id) /\ UNCHANGED <<now, waiter, agentVars, memVars>>

Spec == Init /\ [][PoolNext]_vars

\* The pool with a clock and one waitFor call.
WaitNext ==
  \/ Spawn(MaxWaitTasks, Prompts, WaitModelArgs) /\ UNCHANGED <<now, waiter, agentVars, memVars>>
  \/ \E id \in 1..MaxWaitTasks : SkillsLoaded(id) /\ UNCHANGED <<now, waiter, agentVars, memVars>>
  \/ \E id \in 1..MaxWaitTasks : TaskCompletes(id) /\ UNCHANGED <<now, waiter, agentVars, memVars>>
  \/ \E id \in 1..MaxWaitTasks : TaskFails(id) /\ UNCHANGED <<now, waiter, agentVars, memVars>>
  \/ WaitFor(MaxWaitTasks + 1)
  \/ WaitWakes
  \/ Tick

WaitSpec == Init /\ [][WaitNext]_vars

\* The pool whose suspended tasks are resumed: every skill load returns and
\* every provider call returns or fails.
FairNext ==
  \/ Spawn(MaxFairTasks, Prompts, ModelArgs) /\ UNCHANGED <<now, waiter, agentVars, memVars>>
  \/ \E id \in 1..MaxFairTasks : SkillsLoaded(id) /\ UNCHANGED <<now, waiter, agentVars, memVars>>
  \/ \E id \in 1..MaxFairTasks : TaskCompletes(id) /\ UNCHANGED <<now, waiter, agentVars, memVars>>
  \/ \E id \in 1..MaxFairTasks : TaskFails(id) /\ UNCHANGED <<now, waiter, agentVars, memVars>>

FairSpec ==
  /\ Init
  /\ [][FairNext]_vars
  /\ \A id \in 1..MaxFairTasks : WF_vars(TaskStep(id) /\ UNCHANGED <<now, waiter, agentVars, memVars>>)

FairWaitSpec ==
  /\ Init
  /\ [][WaitNext]_vars
  /\ \A id \in 1..MaxWaitTasks : WF_vars(TaskStep(id) /\ UNCHANGED <<now, waiter, agentVars, memVars>>)

\* One run of runAgent on a pool-less process.
AgentSpecInit ==
  /\ PoolInit
  /\ maxConcurrent = DefaultMaxConcurrent
  /\ now = 0
  /\ waiter = NoWaiter
  /\ AgentInit
  /\ MemIdle

AgentSpec == AgentSpecInit /\ [][AgentNext]_vars

\* Repeated runs of runAgent on one conversation, with a continuation policy
\* and a clock.
RerunInit ==
  /\ PoolInit
  /\ maxConcurrent = DefaultMaxConcurrent
  /\ now = 0
  /\ waiter = NoWaiter
  /\ \E o \in [initialPrompt : {<<"hello">>}, context : {createAgentContext(<<>>)},
                systemPrompt : SystemPrompts, maxTurns : 1..MaxRerunTurns,
                shouldContinue : {TRUE}] :
       AgentIdle(o)
  /\ MemIdle

RerunNext ==
  \/ RunAgent /\ UNCHANGED <<poolVars, waitVars, memVars>>
  \/ Reply({<<"ok">>}) /\ UNCHANGED <<poolVars, waitVars, memVars>>
  \/ ProviderThrows /\ UNCHANGED <<poolVars, waitVars, memVars>>
  \/ PolicyContinues /\ UNCHANGED <<poolVars, waitVars, memVars>>
  \/ PolicyStops /\ UNCHANGED <<poolVars, waitVars, memVars>>
  \/ RunAgentAgain /\ UNCHANGED <<poolVars, waitVars, memVars>>
  \/ Elapse

RerunSpec == RerunInit /\ [][RerunNext]_vars

\* The context functions called in any order on the contexts made so far,
\* runAgent among them (without continuation policy).
ContextInit ==
  /\ PoolInit
  /\ maxConcurrent = DefaultMaxConcurrent
  /\ now = 0
  /\ waiter = NoWaiter
  /\ \E o \in [initialPrompt : {<<"hello">>}, context : {createAgentContext(<<>>)},
                systemPrompt : {NoPrompt}, maxTurns : 1..MaxRerunTurns,
                shouldContinue : {FALSE}] :
       AgentIdle(o)
  /\ MemIdle

ContextNext ==
  \/ CreateContext /\ UNCHANGED <<poolVars, waitVars, agentVars>>
  \/ AddMessage /\ UNCHANGED <<poolVars, waitVars, agentVars>>
  \/ UpdateProgress /\ UNCHANGED <<poolVars, waitVars, agentVars>>
  \/ RunAgentOn /\ UNCHANGED <<poolVars, waitVars>>
  \/ Reply({<<"ok">>}) /\ UNCHANGED <<poolVars, waitVars, memVars>>
  \/ ProviderThrows /\ UNCHANGED <<poolVars, waitVars, memVars>>
  \/ ResultStored /\ UNCHANGED <<poolVars, waitVars>>

ContextSpec == ContextInit /\ [][ContextNext]_vars

\* Windowing and compaction of a conversation.
WindowInit ==
  /\ PoolInit
  /\ maxConcurrent = DefaultMaxConcurrent
  /\ now = 0
  /\ waiter = NoWaiter
  /\ AgentIdle(NoOptions)
  /\ \E messages \in Conversations :
       heap = NewObject(NoHeap, AddAll(createAgentContext(<<>>), messages))
  /\ lastCall = NoCall

WindowNext ==
  \/ History /\ UNCHANGED <<poolVars, waitVars, agentVars>>
  \/ SimpleCompact /\ UNCHANGED <<poolVars, waitVars, agentVars>>
  \/ LlmCompact /\ UNCHANGED <<poolVars, waitVars, agentVars>>
  \/ SummaryReturns /\ UNCHANGED <<poolVars, waitVars, agentVars>>
  \/ SummaryThrows /\ UNCHANGED <<poolVars, waitVars, agentVars>>
  \/ Adopt /\ UNCHANGED <<poolVars, waitVars, agentVars>>

WindowSpec == WindowInit /\ [][WindowNext]_vars

\* The skill router called on an input and a skill list.
MatchInit ==
  /\ PoolInit
  /\ maxConcurrent = DefaultMaxConcurrent
  /\ now = 0
  /\ waiter = NoWaiter
  /\ AgentIdle(NoOptions)
  /\ heap = NoHeap
  /\ \E input \in MatchInputs : \E skills \in SkillLists :
       lastCall = [NoCall EXCEPT !.input = input, !.skills = skills]

MatchNext ==
  \/ MatchSkills /\ UNCHANGED <<poolVars, waitVars, agentVars>>
  \/ FindBestSkill /\ UNCHANGED <<poolVars, waitVars, agentVars>>

MatchSpec == MatchInit /\ [][MatchNext]_vars

\* The pool used by a caller that has a conversation of its own; the tasks
\* have different prompts.
SubagentPrompts == {"task", "review"}

ParentContext ==
  addMessage(addMessage(createAgentContext(SkillList), Message("user", "task")),
             Message("assistant", "reply"))

SubagentInit ==
  /\ PoolInit
  /\ now = 0
  /\ waiter = NoWaiter
  /\ AgentIdle([NoOptions EXCEPT !.context = ParentContext])
  /\ MemIdle

SubagentNext ==
  \/ Spawn(MaxSubagents, SubagentPrompts, WaitModelArgs) /\ UNCHANGED <<now, waiter, agentVars, memVars>>
  \/ \E id \in 1..MaxSubagents : SkillsLoaded(id) /\ UNCHANGED <<now, waiter, agentVars, memVars>>
  \/ \E id \in 1..MaxSubagents : TaskCompletes(id) /\ UNCHANGED <<now, waiter, agentVars, memVars>>
  \/ \E id \in 1..MaxSubagents : TaskFails(id) /\ UNCHANGED <<now, waiter, agentVars, memVars>>

SubagentSpec == SubagentInit /\ [][SubagentNext]_vars

\* getContextLimit called on a model identifier.
LimitInit ==
  /\ PoolInit
  /\ maxConcurrent = DefaultMaxConcurrent
  /\ now = 0
  /\ waiter = NoWaiter
  /\ AgentIdle(NoOptions)
  /\ heap = NoHeap
  /\ \E model \in ModelNames : lastCall = [NoCall EXCEPT !.input = model]

LimitNext == GetContextLimit /\ UNCHANGED <<poolVars, waitVars, agentVars>>

LimitSpec == LimitInit /\ [][LimitNext]_vars

----------------------------------------------------------------------------
(***************************************************************************)
(* Properties of the SubagentPool.                                         *)
(***************************************************************************)
StatusIs(st) == {i \in TaskIds : tasks[i].status = st}

StartErrors == {"Invalid model string", "Provider not configured", "Unknown provider"}

\* C1: in every reachable state the running set holds at most maxConcurrent
\* tasks (and at most maxConcurrent tasks have status running).
C1_RunningBounded ==
  /\ Cardinality(running) <= maxConcurrent
  /\ Cardinality(StatusIs("running")) <= maxConcurrent

\* The running set is full, a task waits, and a completion step has drained
\* the queue.
C1_Witness ==
  /\ Cardinality(running) = maxConcurrent
  /\ StatusIs("pending") # {}
  /\ lastStep.op \in {"complete", "fail"}
  /\ lastStep.started # {}

\* C2: when more than maxConcurrent tasks were spawned and none has finished,
\* exactly maxConcurrent are running and the others are pending.
C2_FirstRunOthersWait ==
  (Len(tasks) > maxConcurrent /\ \A i \in TaskIds : ~Terminal(tasks[i].status))
    => /\ Cardinality(StatusIs("running")) = maxConcurrent
       /\ Cardinality(running) = maxConcurrent
       /\ Cardinality(StatusIs("pending")) = Len(tasks) - maxConcurrent

C2_Witness ==
  /\ Len(tasks) > maxConcurrent
  /\ \A i \in TaskIds : ~Terminal(tasks[i].status)

\* The tasks other than t whose status is assigned in the step.
StartedInStep(t) == {i \in TaskIds \ {t} : hist'[i] # hist[i]}

\* The step in which the runTask call of t ends after its provider exchange.
CompletionStep(t) == t \in TaskIds /\ tpc[t] = "runAgent" /\ tpc'[t] = "done"

\* C3 as stated: a completion step starts exactly one task when some task is
\* pending and none otherwise.
C3_ExactlyOneStarted ==
  [][\A t \in 1..MaxTasks :
       CompletionStep(t) =>
         IF StatusIs("pending") # {}
         THEN Cardinality(StartedInStep(t)) = 1
         ELSE StartedInStep(t) = {}]_vars

\* C3 as amended: a completion step starts pending tasks in spawn order until
\* one of them stays running or none is pending; the tasks started before it
\* failed at start-up within the step; no other task is touched.
C3_DrainOnCompletion ==
  [][\A t \in 1..MaxTasks :
       CompletionStep(t) =>
         LET pend == StatusIs("pending")
             started == StartedInStep(t)
             stay == {i \in started : tasks'[i].status = "running"}
         IN /\ started \subseteq pend
            /\ \A i \in started, j \in pend : j < i => j \in started
            /\ Cardinality(stay) <= 1
            /\ \A i \in stay : \A j \in started : j <= i
            /\ \A i \in started \ stay :
                 /\ hist'[i] = <<"pending", "running", "failed">>
                 /\ tasks'[i].error = StartError(tasks[i].model)
                 /\ tasks'[i].error \in StartErrors
            /\ stay = {} => started = pend
            /\ (\E i \in pend : StartError(tasks[i].model) = Undefined)
                 => Cardinality(stay) = 1
            /\ \A i \in TaskIds \ (started \cup {t}) : tasks'[i] = tasks[i]
            /\ running' = (running \ {t}) \cup stay]_vars

\* A completion step has started two waiting tasks: one failed at start-up,
\* the next one runs.
C3_Witness ==
  /\ lastStep.op \in {"complete", "fail"}
  /\ Cardinality(lastStep.started) >= 2
  /\ \E i \in lastStep.started : tasks[i].status = "running"
  /\ \E i \in lastStep.started : tasks[i].status = "failed"

StatusPaths ==
  { <<"pending">>, <<"pending", "running">>,
    <<"pending", "running", "completed">>, <<"pending", "running", "failed">> }

\* C4: the statuses assigned to a task are pending, running and then completed
\* or failed, in this order, and a terminal task never changes again.
C4_StatusLifecycle ==
  [][\A i \in 1..Len(tasks') :
       /\ hist'[i] \in StatusPaths
       /\ tasks'[i].status = hist'[i][Len(hist'[i])]
       /\ (i \in TaskIds /\ Terminal(tasks[i].status)) => tasks'[i] = tasks[i]
       /\ (i \in TaskIds) => /\ Len(hist'[i]) >= Len(hist[i])
                             /\ SubSeq(hist'[i], 1, Len(hist[i])) = hist[i]]_vars

\* One task completed, another one that had to wait failed, and a waitFor
\* call returned.
C4_Witness ==
  /\ \E i \in TaskIds : hist[i] = <<"pending", "running", "completed">>
  /\ \E i \in TaskIds : hist[i] = <<"pending", "running", "failed">>
  /\ waiter.state = "returned"

\* The tasks that become failed in the step.
FailsInStep ==
  {t \in 1..Len(tasks') :
     tasks'[t].status = "failed" /\ (t \in TaskIds => tasks[t].status # "failed")}

\* C5: a task that fails ends failed with the failure's message and without a
\* slot; the step changes no other task (the task whose completion the step
\* is apart) except to start a waiting one, and every task still becomes
\* terminal.
C5_FailureIsContained ==
  /\ [][\A t \in FailsInStep :
          /\ tasks'[t].result = Undefined
          /\ tasks'[t].error # Undefined
          /\ IF StartError(tasks'[t].model) # Undefined
             THEN tasks'[t].error = StartError(tasks'[t].model)
             ELSE tasks'[t].error \in ProviderFailures
          /\ t \notin running'
          /\ tpc'[t] = "done"
          /\ Len(tasks') >= Len(tasks)
          /\ \A i \in {j \in TaskIds \ FailsInStep : ~CompletionStep(j)} :
               /\ tasks'[i].result = tasks[i].result
               /\ tasks'[i].error = tasks[i].error
               /\ tasks'[i].status # tasks[i].status
                    => tasks[i].status = "pending" /\ tasks'[i].status = "running"
               /\ tasks[i].status = "running"
                    => i \in running' /\ tpc'[i] = tpc[i]]_vars
  /\ \A i \in 1..MaxFairTasks :
       (i \in TaskIds /\ StatusIs("failed") # {})
         ~> (i \in TaskIds /\ Terminal(tasks[i].status))

\* A task failed on a provider error, one failed at start-up, and a sibling
\* spawned after the first one completed.
C5_Witness ==
  /\ \E t, s \in TaskIds :
       /\ tasks[t].error \in ProviderFailures
       /\ s > t
       /\ tasks[s].status = "completed"
  /\ \E u \in TaskIds : tasks[u].error \in StartErrors

(***************************************************************************)
(* Properties of waitFor.                                                  *)
(***************************************************************************)
TimedOut == waiter.state = "threw" /\ waiter.error = "timed out"

Deadline == waiter.startTime + waiter.timeoutMs

\* C6 as stated: waitFor returns the terminal task when the task became
\* terminal before the deadline, and times out only when it did not.
C6_ReturnsIfDoneBeforeDeadline ==
  /\ waiter.state = "returned" =>
       /\ Terminal(waiter.value.status)
       /\ waiter.value = tasks[waiter.taskId]
  /\ TimedOut =>
       ~(/\ waiter.taskId \in TaskIds
         /\ Terminal(tasks[waiter.taskId].status)
         /\ doneAt[waiter.taskId] < Deadline)

\* C7: the step in which waitFor times out leaves the pool as it is, and the
\* task it waited for still becomes terminal.
C7_TimeoutLeavesPool ==
  /\ [][(~TimedOut /\ TimedOut') => UNCHANGED <<poolVars, doneAt>>]_vars
  /\ [][TimedOut =>
          \A i \in TaskIds :
            tasks'[i] # tasks[i] => tasks[i].status \in {"pending", "running"}]_vars
  /\ (TimedOut /\ waiter.taskId \in TaskIds)
       ~> (waiter.taskId \in TaskIds /\ Terminal(tasks[waiter.taskId].status))

\* waitFor timed out on a task that ran on and completed afterwards.
C7_Witness ==
  /\ TimedOut
  /\ waiter.taskId \in TaskIds
  /\ tasks[waiter.taskId].status = "completed"
  /\ doneAt[waiter.taskId] >= Deadline
  /\ waiter.timeoutMs > 0

(***************************************************************************)
(* Properties of runAgent.                                                 *)
(***************************************************************************)
CountRole(messages, role) ==
  Cardinality({i \in 1..Len(messages) : messages[i].role = role})

\* The messages of a role appended to the context since runAgent was called.
Appended(role) ==
  CountRole(context.messages, role) - CountRole(opts.context.messages, role)

\* C8: without a continuation policy and with maxTurns >= 1, one turn runs:
\* one provider exchange and, when the run returns, one assistant message.
C8_OneTurnWithoutPolicy ==
  (~opts.shouldContinue /\ opts.maxTurns >= 1) =>
    /\ turnCount <= 1
    /\ calls.provider <= 1
    /\ calls.policy = 0
    /\ Appended("assistant") <= 1
    /\ apc # "idle" => turnCount = 1 /\ calls.provider = 1
    /\ apc = "returned" =>
         /\ Appended("assistant") = 1
         /\ outcome.context = context
         /\ context.messages[Len(context.messages)].role = "assistant"

\* A run without policy and with maxTurns > 1 has returned.
C8_Witness ==
  /\ ~opts.shouldContinue
  /\ opts.maxTurns > 1
  /\ apc = "returned"

\* C9: at most maxTurns turns run, and after turn maxTurns the run returns
\* even when the policy answers continue.
C9_AtMostMaxTurns ==
  [][/\ turnCount' <= opts.maxTurns
     /\ calls'.provider <= opts.maxTurns
     /\ CountRole(context'.messages, "assistant")
          - CountRole(opts.context.messages, "assistant") <= opts.maxTurns
     /\ (apc = "policy" /\ turnCount = opts.maxTurns) =>
          /\ apc' = "returned"
          /\ calls'.provider = calls.provider
          /\ context' = context]_vars

\* The policy answered continue after each of maxTurns >= 2 turns and the run
\* has returned.
C9_Witness ==
  /\ opts.maxTurns >= 2
  /\ apc = "returned"
  /\ turnCount = opts.maxTurns
  /\ Len(calls.decisions) = opts.maxTurns
  /\ \A i \in 1..Len(calls.decisions) : calls.decisions[i].continue

\* maxTurns = 5 and the policy answered continue: false on the first turn.
StoppedOnFirstTurn ==
  /\ opts.maxTurns = 5
  /\ opts.shouldContinue
  /\ calls.decisions # <<>>
  /\ ~calls.decisions[1].continue

\* The texts held by what the caller of runAgent receives.
CallerSees ==
  IF outcome.kind = "returned"
  THEN {outcome.context.messages[i].content :
          i \in 1..Len(outcome.context.messages)}
  ELSE {}

\* C10 as stated: the run ends after one turn and the caller receives the
\* stop reason.
C10_ReasonReturned ==
  StoppedOnFirstTurn =>
    /\ apc = "returned"
    /\ turnCount = 1
    /\ calls.decisions[1].reason \in CallerSees

\* C10 as amended: the run ends after one turn, the stop reason is written to
\* the console, and the caller receives the final context.
C10_StopsAfterOneTurn ==
  StoppedOnFirstTurn =>
    /\ apc = "returned"
    /\ turnCount = 1
    /\ calls.provider = 1
    /\ calls.policy = 1
    /\ Appended("assistant") = 1
    /\ log # <<>>
    /\ log[Len(log)] = <<"Stopping", calls.decisions[1].reason>>
    /\ outcome = [kind |-> "returned", context |-> context, error |-> Undefined]
    /\ calls.decisions[1].reason \notin CallerSees

C10_Witness ==
  /\ StoppedOnFirstTurn
  /\ apc = "returned"
  /\ calls.decisions[1].reason = <<"budget">>

\* The stop decisions made in the five minutes up to the latest one.
StopsInWindow ==
  IF calls.stops = <<>>
  THEN 0
  ELSE Cardinality({i \in 1..Len(calls.stops) :
         calls.stops[i] >= calls.stops[Len(calls.stops)] - BreakerWindowMs})

\* The run has ended on a stop decision of the policy.
EndedOnStop ==
  /\ apc = "returned"
  /\ calls.decisions # <<>>
  /\ ~calls.decisions[Len(calls.decisions)].continue

\* C11: a stop decision that is the third or later within five minutes ends
\* the loop through the circuit breaker and not through the stop that reports
\* the reason.
C11_BreakerEndsLoop ==
  (EndedOnStop /\ StopsInWindow >= BreakerStops) =>
    log[Len(log)] = <<"Circuit breaker", <<"too many stops in 5 minutes">>>>

\* The content of the most recent message of a context.
LatestMessage(ctx) == ctx.messages[Len(ctx.messages)].content

\* The turn whose provider exchange is described by ex was routed on input:
\* a skill turn with the best match when it scores at least 80, otherwise a
\* chat turn on the windowed history.
RoutedOn(input, ctx, ex) ==
  LET skillMatches == matchSkills(input, ctx.skills)
  IN IF skillMatches # <<>> /\ skillMatches[1].score >= 80
     THEN ex = [kind |-> "skill",
                messages |-> SkillMessages(skillMatches[1].skill, input)]
     ELSE ex = [kind |-> "chat",
                messages |-> getConversationHistory(ctx, DefaultMaxTokens)]

\* One provider exchange per turn, and a reply appends one assistant message.
OneMessagePerTurn ==
  /\ (apc # "provider" /\ apc' = "provider") =>
       /\ turnCount' = turnCount + 1 \/ (apc \in {"idle", "returned"} /\ turnCount' = 1)
       /\ calls'.provider = turnCount'
       /\ exchange'.kind \in {"skill", "chat"}
  /\ (apc = "provider" /\ apc' \notin {"provider", "rejected"}) =>
       /\ Len(context'.messages) = Len(context.messages) + 1
       /\ SubSeq(context'.messages, 1, Len(context.messages)) = context.messages
       /\ context'.messages[Len(context'.messages)].role = "assistant"
       /\ calls'.provider = calls.provider
  /\ apc \notin {"provider", "idle", "returned"} =>
       context'.messages = context.messages

\* C12 as stated: every turn is routed on the content of the latest message.
C12_RoutedOnLatestMessage ==
  [][/\ apc' = "provider" => RoutedOn(LatestMessage(context'), context', exchange')
     /\ OneMessagePerTurn]_vars

\* C12 as amended: every turn is routed on the content of the latest message,
\* or on the initial prompt when that content is empty; the turn is a skill
\* turn exactly when the best match scores at least 80, and its reply appends
\* exactly one assistant message.
C12_OneRoutedTurn ==
  [][/\ apc' = "provider" =>
          RoutedOn(IF LatestMessage(context') = <<>>
                   THEN opts'.initialPrompt
                   ELSE LatestMessage(context'),
                   context', exchange')
     /\ OneMessagePerTurn]_vars

\* A later turn runs a skill matched on the initial prompt after an empty
\* reply.
C12_Witness ==
  /\ apc = "provider"
  /\ turnCount >= 2
  /\ exchange.kind = "skill"
  /\ LatestMessage(context) = <<>>

\* The latest event of the run is a failure of its provider.
ProviderFailed ==
  /\ calls.trace # <<>>
  /\ calls.trace[Len(calls.trace)] \in ProviderFailures

\* C13: when the provider fails during a turn, runAgent rejects with that
\* error; the exchange of the turn is not made again, no assistant message is
\* appended for the turn, and nothing more happens in the run.
C13_ProviderFailurePropagates ==
  /\ [](ProviderFailed =>
          /\ apc = "rejected"
          /\ outcome.kind = "rejected"
          /\ outcome.error = calls.trace[Len(calls.trace)]
          /\ calls.provider = turnCount
          /\ Appended("assistant") = turnCount - 1
          /\ Cardinality({i \in 1..Len(calls.trace) :
                            calls.trace[i] \in ProviderFailures}) = 1)
  /\ [][ProviderFailed => UNCHANGED agentVars]_vars

\* The provider failed on a later turn of a run, after a skill was executed.
C13_Witness ==
  /\ ProviderFailed
  /\ turnCount >= 2
  /\ log # <<>>

\* The number of events of the run that satisfy Is.
CountEvents(Is(_)) ==
  Cardinality({i \in 1..Len(calls.trace) : Is(calls.trace[i])})

IsCall(ev) == ev = "call"
IsEnd(ev) == ev = "reply" \/ ev \in ProviderFailures
IsReply(ev) == ev = "reply"
IsAsk(ev) == ev = "ask"
IsAnswer(ev) == ev = "answer"

\* C14: the turns of a run are sequential.  At most one provider call is in
\* flight; the policy is asked once per completed turn, after the reply of the
\* turn has been appended; the next provider call starts only after the
\* decision.
C14_TurnsAreSequential ==
  /\ CountEvents(IsCall) - CountEvents(IsEnd) \in {0, 1}
  /\ CountEvents(IsCall) - CountEvents(IsEnd) = 1 <=> apc = "provider"
  /\ CountEvents(IsAsk) - CountEvents(IsAnswer) \in {0, 1}
  /\ CountEvents(IsAsk) - CountEvents(IsAnswer) = 1 <=> apc = "policy"
  /\ calls.policy = CountEvents(IsAsk)
  /\ opts.shouldContinue => CountEvents(IsAsk) = CountEvents(IsReply)
  /\ ~opts.shouldContinue => CountEvents(IsAsk) = 0
  /\ \A i \in 1..Len(calls.trace) :
       /\ calls.trace[i] = "ask" => i > 1 /\ calls.trace[i - 1] = "reply"
       /\ (calls.trace[i] = "call" /\ i > 1) => calls.trace[i - 1] = "answer"
       /\ calls.trace[i] = "answer" => calls.trace[i - 1] = "ask"
       /\ IsEnd(calls.trace[i]) => calls.trace[i - 1] = "call"
  /\ apc = "policy" =>
       /\ context.messages[Len(context.messages)].role = "assistant"
       /\ Appended("assistant") = turnCount
       /\ calls.policy = turnCount
       /\ exchange = NoExchange

\* The policy is being asked after the second turn of a run.
C14_Witness ==
  /\ apc = "policy"
  /\ turnCount >= 2
  /\ Len(calls.decisions) = turnCount - 1

(***************************************************************************)
(* Properties of the context functions.                                    *)
(***************************************************************************)
\* C15: addMessage(ctx, m) returns a context whose messages are those of ctx
\* followed by m, and leaves ctx, its messages array and every other context
\* as they were.
C15_AddMessageIsPure ==
  [][(lastCall'.op = "addMessage" /\ heap' # heap) =>
       LET r == lastCall'.ctx
           q == lastCall'.result
       IN /\ Contents(heap', q).messages =
               Append(Contents(heap, r).messages, lastCall'.message)
          /\ Len(Contents(heap', q).messages) = Len(Contents(heap, r).messages) + 1
          /\ heap'.objs[r] = heap.objs[r]
          /\ Contents(heap', r).messages = Contents(heap, r).messages
          /\ Contents(heap', r).lastMessage = Contents(heap, r).lastMessage
          /\ \A a \in Refs : Contents(heap', a) = Contents(heap, a)]_vars

\* addMessage was called on a context that holds messages.
C15_Witness ==
  /\ lastCall.op = "addMessage"
  /\ Contents(heap, lastCall.ctx).messages # <<>>
  /\ Len(Contents(heap, lastCall.result).messages) =
       Len(Contents(heap, lastCall.ctx).messages) + 1

ProgressInRange(ctx) ==
  /\ ctx.taskProgress.den > 0
  /\ 0 <= ctx.taskProgress.num
  /\ ctx.taskProgress.num <= 100 * ctx.taskProgress.den

MirrorsLastMessage(ctx) ==
  ctx.messages # <<>> => ctx.lastMessage = ctx.messages[Len(ctx.messages)].content

\* C16: every context made by createAgentContext, addMessage, updateProgress
\* and runAgent has taskProgress in [0,100] and, when it holds messages,
\* lastMessage equal to the content of the last one; updateProgress yields 0
\* for p < 0 and 100 for p > 100.
C16_ProgressClampedLastMirrored ==
  /\ \A r \in Refs :
       ProgressInRange(Contents(heap, r)) /\ MirrorsLastMessage(Contents(heap, r))
  /\ ProgressInRange(context) /\ MirrorsLastMessage(context)
  /\ ProgressInRange(outcome.context) /\ MirrorsLastMessage(outcome.context)
  /\ lastCall.op = "updateProgress" =>
       LET p == lastCall.progress
           q == Contents(heap, lastCall.result).taskProgress
       IN /\ p < 0 => q = Fraction(0, 1)
          /\ p > 100 => q = Fraction(100, 1)
          /\ (0 <= p /\ p <= 100) => q = Fraction(p, 1)

\* updateProgress(ctx, 150) on a context that runAgent returned.
C16_Witness ==
  /\ lastCall.op = "updateProgress"
  /\ lastCall.progress = 150
  /\ Contents(heap, lastCall.result).messages # <<>>
  /\ \E i \in 1..Len(Contents(heap, lastCall.result).messages) :
       Contents(heap, lastCall.result).messages[i].role = "assistant"

\* The messages with role system among messages, in order.
SystemMessages(messages) == SelectSeq(messages, IsSystem)

\* C17: the history of a context that holds a system message starts with a
\* system message of the context, wherever it was inserted and however small
\* maxTokens is.
C17_SystemMessageFirst ==
  lastCall.op = "getConversationHistory" =>
    LET input == Contents(heap, lastCall.ctx).messages
        history == lastCall.messages
    IN SystemMessages(input) # <<>> =>
         /\ history # <<>>
         /\ history[1].role = "system"
         /\ history[1] = SystemMessages(input)[1]

\* The history under maxTokens = 0 of a context whose system message was
\* added after a user message.
C17_Witness ==
  /\ lastCall.op = "getConversationHistory"
  /\ lastCall.budget = 0
  /\ LET input == Contents(heap, lastCall.ctx).messages
     IN /\ Len(input) >= 2
        /\ input[1].role = "user"
        /\ input[Len(input)].role = "system"
  /\ Len(lastCall.messages) = 1

\* Every element of part is an element of whole.
AllIn(part, whole) ==
  \A i \in 1..Len(part) : \E k \in 1..Len(whole) : whole[k] = part[i]

\* C18: every system message of the input is in the output of
\* getConversationHistory, simpleCompact and llmCompact.
C18_SystemMessagesRetained ==
  (lastCall.op \in {"getConversationHistory", "simpleCompact", "llmCompact"}
     /\ ~lastCall.pending) =>
    AllIn(SystemMessages(Contents(heap, lastCall.ctx).messages), lastCall.messages)

\* The conversation is at or under the target of the compaction options.
UnderTarget(messages, options) ==
  estimateConversationTokens(messages)
    <= (IF options.targetTokens # 0 THEN options.targetTokens ELSE ContextLimit \div 2)

\* C20: compacting a conversation at or under the target returns the input
\* messages with savedTokens = 0, with simpleCompact and with llmCompact.
C20_NoOpUnderTarget ==
  (lastCall.op \in {"simpleCompact", "llmCompact"} /\ ~lastCall.pending
     /\ UnderTarget(Contents(heap, lastCall.ctx).messages, lastCall.options)) =>
    /\ lastCall.messages = Contents(heap, lastCall.ctx).messages
    /\ lastCall.savedTokens = 0

(***************************************************************************)
(* Properties of the skill router.                                         *)
(***************************************************************************)
\* The position of a skill in a list of different skills.
Position(skill, skills) == CHOOSE i \in 1..Len(skills) : skills[i] = skill

TriggerMatched(skill, input) ==
  skill.trigger # NoTrigger /\ TriggerTest(skill.trigger, input)

\* The skill is matched by keyword overlap only.
KeywordOnly(skill, input) ==
  /\ ~TriggerMatched(skill, input)
  /\ ~NameFound(skill, input)

\* C19: the results of matchSkills are in descending order of score, results
\* of equal score are in the order of the skill list, a trigger-matched skill
\* precedes every skill matched by keywords only, a second call gives the same
\* list, and findBestSkill gives the first skill of the list or none.
C19_StableDescendingOrder ==
  LET m == lastCall.matches
  IN /\ lastCall.op = "matchSkills" =>
          /\ m = matchSkills(lastCall.input, lastCall.skills)
          /\ \A i \in 1..Len(m) :
               \E k \in 1..Len(lastCall.skills) : lastCall.skills[k] = m[i].skill
          /\ \A i, k \in 1..Len(m) :
               i < k =>
                 /\ m[i].score >= m[k].score
                 /\ m[i].score = m[k].score =>
                      Position(m[i].skill, lastCall.skills)
                        < Position(m[k].skill, lastCall.skills)
          /\ \A i, k \in 1..Len(m) :
               (TriggerMatched(m[i].skill, lastCall.input)
                  /\ KeywordOnly(m[k].skill, lastCall.input)) => i < k
     /\ lastCall.op = "findBestSkill" =>
          /\ lastCall.best =
               (IF matchSkills(lastCall.input, lastCall.skills) = <<>>
                THEN <<>>
                ELSE <<matchSkills(lastCall.input, lastCall.skills)[1].skill>>)
          /\ (m # <<>> /\ lastCall.best # <<>>) => lastCall.best[1] = m[1].skill

\* A trigger-matched skill given last is first, and two skills matched by
\* one keyword each follow it in the order of the list.
C19_Witness ==
  /\ lastCall.op = "matchSkills"
  /\ Len(lastCall.matches) = 3
  /\ lastCall.matches[1].skill = lastCall.skills[3]
  /\ lastCall.matches[1].score = TriggerScore
  /\ lastCall.matches[2].score = KeywordScore
  /\ lastCall.matches[3].score = KeywordScore


----------------------------------------------------------------------------
(***************************************************************************)
(* Properties of llmCompact's fallback.                                    *)
(***************************************************************************)
\* The arguments of the compaction call whose result lastCall holds.
CompactInput == Contents(heap, lastCall.ctx).messages

OldMessages(messages, options) ==
  AllButLastN(SelectSeq(messages, NotSystem), options.keepRecent)

RecentMessages(messages, options) ==
  LastN(SelectSeq(messages, NotSystem), options.keepRecent)

\* Two message lists that differ at most in the message at position k.
SameBut(k, a, b) ==
  /\ Len(a) = Len(b)
  /\ \A i \in 1..Len(a) : i # k => a[i] = b[i]

FellBack ==
  /\ lastCall.op = "llmCompact"
  /\ lastCall.summarizer = "threw"

\* C21: when the provider fails during the summary request, llmCompact
\* returns a result: its summary is the local heuristic summary of the old
\* messages, and its messages are the system message, the summary message
\* and the recent messages, equal to those of a call whose provider
\* answered except for the summary message.
C21_FallsBackToLocalSummary ==
  FellBack =>
    LET old == OldMessages(CompactInput, lastCall.options)
        sys == SystemMessage(CompactInput)
    IN /\ ~lastCall.pending
       /\ lastCall.summary = createLocalSummary(old, lastCall.options.focus)
       /\ lastCall.messages =
            sys \o <<Message("system", <<"[Conversation Summary]:">> \o lastCall.summary)>>
                \o RecentMessages(CompactInput, lastCall.options)
       /\ lastCall.originalTokens = estimateConversationTokens(CompactInput)
       /\ \A summary \in Summaries :
            SameBut(Len(sys) + 1, lastCall.messages,
                    llmCompacted(CompactInput, lastCall.options, summary).messages)

\* A failed summary request on a conversation with a system message, an old
\* user request and a recent message.
C21_Witness ==
  /\ FellBack
  /\ SystemMessage(CompactInput) # <<>>
  /\ lastCall.summary = <<"Topics discussed:", "please", "brainstorm", "ideas">>
  /\ Len(lastCall.messages) = 3
  /\ lastCall.messages[3] = Message("assistant", <<"note:", "use", "tdd">>)


----------------------------------------------------------------------------
(***************************************************************************)
(* Properties of the admission order of the pool.                          *)
(***************************************************************************)
\* C22: pending tasks are admitted in spawn order: the runTask calls of a
\* pool operation are made on tasks of increasing spawn position, and once
\* the operation has ended no task spawned before a task it started is
\* pending (so each was started, in this operation or an earlier one,
\* before the later task).
C22_AdmittedInSpawnOrder ==
  LET order == lastStep.order
  IN /\ \A k \in 1..(Len(order) - 1) : order[k] < order[k + 1]
     /\ \A k \in 1..Len(order) :
          \A i \in 1..(order[k] - 1) : tasks[i].status # "pending"
     /\ \A i \in TaskIds : \A j \in 1..(i - 1) :
          tasks[j].status = "pending" => tasks[i].status = "pending"

\* A freed slot went to the earliest of several pending tasks, after an
\* earlier pending task failed at start-up in the same step.
C22_Witness ==
  /\ lastStep.op \in {"complete", "fail"}
  /\ Len(lastStep.order) = 2
  /\ tasks[lastStep.order[2]].status = "running"
  /\ \E j \in TaskIds : j > lastStep.order[2] /\ tasks[j].status = "pending"


----------------------------------------------------------------------------
(***************************************************************************)
(* Properties of the history window.                                       *)
(***************************************************************************)
RECURSIVE SumChars(_)
SumChars(messages) ==
  IF messages = <<>> THEN 0
  ELSE TextLen(Head(messages).content) + SumChars(Tail(messages))

\* The last k elements of seq, k in 0..Len(seq).
Suffix(seq, k) == SubSeq(seq, Len(seq) - k + 1, Len(seq))

HistoryWindow ==
  lastCall.op = "getConversationHistory" =>
    LET input == Contents(heap, lastCall.ctx).messages
        others == SelectSeq(input, NotSystem)
        part == SelectSeq(lastCall.messages, NotSystem)
        k == Len(part)
        systemChars == SumChars(SystemMessage(input))
    IN /\ k <= Len(others)
       /\ part = Suffix(others, k)
       /\ lastCall.messages = SystemMessage(input) \o part
       /\ k > 0 => systemChars + SumChars(part) <= CharsPerToken * lastCall.budget
       /\ k < Len(others) =>
            systemChars + SumChars(Suffix(others, k + 1))
              > CharsPerToken * lastCall.budget

HistoryReadsOnly ==
  lastCall'.op = "getConversationHistory" => heap' = heap

\* C23: the non-system part of the history is the longest suffix of the
\* context's non-system messages that fits maxTokens together with the
\* system message, in the original order: the message before it is the
\* first one, walking from the newest, that does not fit; and the call
\* leaves the context and its messages as they were.
C23_HistoryIsNewestSuffix == []HistoryWindow /\ [][HistoryReadsOnly]_vars

\* A walk that stopped at a long message although the older one would fit.
C23_Witness ==
  /\ lastCall.op = "getConversationHistory"
  /\ lastCall.budget = 3
  /\ Contents(heap, lastCall.ctx).messages =
       << Message("user", <<"hello">>),
          Message("user", <<"please", "brainstorm", "ideas">>),
          Message("user", <<"hello">>) >>
  /\ lastCall.messages = << Message("user", <<"hello">>) >>


----------------------------------------------------------------------------
(***************************************************************************)
(* Properties of the scoring rules of matchSkills.                         *)
(***************************************************************************)
\* The results of the last matchSkills call for the skill.
ResultsFor(skill) ==
  { i \in 1..Len(lastCall.matches) : lastCall.matches[i].skill = skill }

ScoreIs(skill, score) ==
  /\ ResultsFor(skill) # {}
  /\ \A i \in ResultsFor(skill) : lastCall.matches[i].score = score

\* C24: a skill whose trigger is present and matches the input scores 100,
\* whether or not its name or its keywords occur; a skill without matching
\* trigger (absent or present) whose name occurs in the input scores 80,
\* whatever its keywords; every other skill scores at most 60 or is not in
\* the results.
C24_RulesInPriorityOrder ==
  lastCall.op = "matchSkills" =>
    \A k \in 1..Len(lastCall.skills) :
      LET skill == lastCall.skills[k]
          input == lastCall.input
      IN /\ TriggerMatched(skill, input) => ScoreIs(skill, TriggerScore)
         /\ (~TriggerMatched(skill, input) /\ NameFound(skill, input)) =>
              ScoreIs(skill, NameScore)
         /\ KeywordOnly(skill, input) =>
              \A i \in ResultsFor(skill) :
                /\ lastCall.matches[i].score <= KeywordCap
                /\ lastCall.matches[i].score > 0
         /\ Cardinality(ResultsFor(skill)) <= 1

\* One call scored 100 a skill whose trigger, name and keywords all match,
\* and 80 a skill whose trigger is present and does not match, whose name
\* occurs and whose keywords do not.
C24_Witness ==
  /\ lastCall.op = "matchSkills"
  /\ lastCall.input = <<"please", "brainstorm", "ideas">>
  /\ \E i, k \in 1..Len(lastCall.matches) :
       /\ lastCall.matches[i].skill.name = "brainstorm"
       /\ NameFound(lastCall.matches[i].skill, lastCall.input)
       /\ MatchedKeywords(lastCall.matches[i].skill, lastCall.input) > 0
       /\ lastCall.matches[i].score = TriggerScore
       /\ lastCall.matches[k].skill.trigger # NoTrigger
       /\ ~TriggerMatched(lastCall.matches[k].skill, lastCall.input)
       /\ lastCall.matches[k].score = NameScore

\* The set of the keywords of a text.
KeywordSet(text) == { extractKeywords(text)[i] : i \in 1..Len(extractKeywords(text)) }

SharedKeywords(skill, input) ==
  KeywordSet(skill.description) \cap KeywordSet(input)

\* C25: a skill that fires neither the trigger rule nor the name rule scores
\* min(60, 15 * k), k being the number of different keywords its description
\* shares with the input, and is not in the results when k = 0.
C25_ScoresDistinctKeywords ==
  lastCall.op = "matchSkills" =>
    \A n \in 1..Len(lastCall.skills) :
      LET skill == lastCall.skills[n]
          k == Cardinality(SharedKeywords(skill, lastCall.input))
      IN KeywordOnly(skill, lastCall.input) =>
           IF k = 0
           THEN ResultsFor(skill) = {}
           ELSE ScoreIs(skill, Min(KeywordCap, KeywordScore * k))


----------------------------------------------------------------------------
(***************************************************************************)
(* Properties of the compacted conversation.                               *)
(***************************************************************************)
CompactTarget(options) ==
  IF options.targetTokens # 0 THEN options.targetTokens ELSE ContextLimit \div 2

\* The last n elements of seq, all of them when it has fewer.
Newest(seq, n) == Suffix(seq, Min(n, Len(seq)))

\* C26: the compaction of a conversation over the target gives the system
\* message if any, one system message with the summary, and the last
\* keepRecent non-system messages of the conversation as they were, for
\* every keepRecent >= 0.
C26_SummaryThenRecent ==
  (/\ lastCall.op \in {"simpleCompact", "llmCompact"}
   /\ ~lastCall.pending
   /\ lastCall.originalTokens > CompactTarget(lastCall.options)) =>
    LET sys == SystemMessage(CompactInput)
        recent == Newest(SelectSeq(CompactInput, NotSystem), lastCall.options.keepRecent)
        out == lastCall.messages
    IN /\ Len(out) = Len(sys) + 1 + Len(recent)
       /\ SubSeq(out, 1, Len(sys)) = sys
       /\ out[Len(sys) + 1].role = "system"
       /\ SubSeq(out, Len(sys) + 2, Len(out)) = recent


----------------------------------------------------------------------------
(***************************************************************************)
(* Properties of getContextLimit.                                          *)
(***************************************************************************)
\* The entries of the table whose key is a substring of the identifier.
KeysWithin(model) ==
  { k \in 1..Len(MODEL_CONTEXT_LIMITS) :
      IsSubstring(MODEL_CONTEXT_LIMITS[k][1], LowerText(model)) }

LongestKeysWithin(model) ==
  { k \in KeysWithin(model) :
      \A j \in KeysWithin(model) :
        Len(MODEL_CONTEXT_LIMITS[j][1]) <= Len(MODEL_CONTEXT_LIMITS[k][1]) }

\* C27: getContextLimit gives the limit of the longest key of the table that
\* is a substring of the identifier (the identifier itself when it is a
\* key), and 8192 when no key is.
C27_LongestKeyWins ==
  lastCall.op = "getContextLimit" =>
    IF KeysWithin(lastCall.input) = {}
    THEN lastCall.result = ContextLimit
    ELSE \E k \in LongestKeysWithin(lastCall.input) :
           lastCall.result = MODEL_CONTEXT_LIMITS[k][2]


----------------------------------------------------------------------------
(***************************************************************************)
(* Properties of the context of a subagent task.                           *)
(***************************************************************************)
\* The messages runAgent adds for the task before its first exchange.
OwnMessages(id) ==
  << Message("system", SubagentSystemPrompt), Message("user", tasks[id].prompt) >>

\* The runTask call of the task has built its context.
ContextBuilt(id) == tpc[id] \in {"runAgent", "done"} /\ tctx[id] # NoContext

\* C28: the context of a started task holds the subagent system prompt and
\* the task's prompt, then the reply once the task has completed, and
\* nothing else: it does not start from the caller's conversation nor hold
\* the prompt of a task with another prompt; the result of a completed task
\* is the content of the last message of its context, an assistant message.
C28_FreshContextPerTask ==
  \A id \in TaskIds :
    LET messages == tctx[id].messages
    IN /\ tpc[id] \in {"idle", "loadAllSkills"} => tctx[id] = NoContext
       /\ tpc[id] = "runAgent" => messages = OwnMessages(id)
       /\ ContextBuilt(id) =>
            /\ SubSeq(messages, 1, 2) = OwnMessages(id)
            /\ Len(messages) \in {2, 3}
            /\ \A k \in 1..Len(context.messages) :
                 messages[k] # context.messages[k]
            /\ \A j \in TaskIds : \A k \in 1..Len(messages) :
                 tasks[j].prompt # tasks[id].prompt =>
                   messages[k] # Message("user", tasks[j].prompt)
       /\ tasks[id].status = "completed" =>
            /\ Len(messages) = 3
            /\ messages[3].role = "assistant"
            /\ messages[3].content \in Responses
            /\ tasks[id].result = messages[3].content
            /\ tctx[id].lastMessage = tasks[id].result
       /\ (tasks[id].status = "failed" /\ ContextBuilt(id)) =>
            messages = OwnMessages(id)

\* Two tasks with different prompts completed beside a caller's conversation
\* that holds messages.
C28_Witness ==
  /\ context.messages # <<>>
  /\ \E i, j \in TaskIds :
       /\ tasks[i].prompt # tasks[j].prompt
       /\ tasks[i].status = "completed"
       /\ tasks[j].status = "completed"
       /\ Len(tctx[i].messages) = 3
       /\ tctx[j].messages[2].content = tasks[j].prompt


----------------------------------------------------------------------------
(***************************************************************************)
(* Termination of the tasks and use of the slots.                          *)
(***************************************************************************)
\* C29: when every suspended runTask call is resumed (the skill load
\* returns, the provider call returns or fails), every spawned task, from
\* whatever status it has (pending behind a full running set included),
\* becomes completed or failed.
C29_EveryTaskTerminates ==
  \A i \in 1..MaxFairTasks :
    (i \in TaskIds /\ ~Terminal(tasks[i].status))
      ~> (i \in TaskIds /\ Terminal(tasks[i].status))

\* With one slot, every task is terminal, the last of them having waited for
\* the task whose end started it.
C29_Witness ==
  /\ maxConcurrent = 1
  /\ Len(tasks) = MaxFairTasks
  /\ \A i \in TaskIds : Terminal(tasks[i].status)
  /\ lastStep.op \in {"complete", "fail"}
  /\ lastStep.order # <<>>
  /\ lastStep.id < lastStep.order[1]

\* C30: after every pool operation the running set is the set of the tasks
\* with status running, and when some task is pending it has exactly
\* maxConcurrent elements.
C30_NoIdleSlotWhilePending ==
  /\ running = StatusIs("running")
  /\ StatusIs("pending") # {} => Cardinality(running) = maxConcurrent

\* After a completion that started a waiting task, the running set is full
\* again and another task still waits.
C30_Witness ==
  /\ lastStep.op \in {"complete", "fail"}
  /\ lastStep.order # <<>>
  /\ StatusIs("pending") # {}
  /\ Cardinality(running) = maxConcurrent
  /\ maxConcurrent > 1

====
